---- MODULE Spec2Model ----
(***************************************************************************)
(* Model of the evaluator's stack memory of iarwain/r3:                    *)
(*   - the chunk stack (src/src/core/m-stacks.c: Init_Stacks,              *)
(*     Push_Ended_Trash_Chunk, Drop_Chunk),                                *)
(*   - the data stack (m-stacks.c: Pop_Stack_Values),                      *)
(*   - the thrown-value channel (sys-frame.h section of                    *)
(*     src/src/os/posix/host-readline.c: CONVERT_NAME_TO_THROWN,           *)
(*     CATCH_THROWN).                                                      *)
(* The debug build is modelled: assert() is active, trash is written.      *)
(* A failed assert or a fail() ends the run: `fault` records which one.    *)
(***************************************************************************)
EXTENDS Integers, Sequences, FiniteSets, TLC

VARIABLES
    \* ---- chunk stack (m-stacks.c) ----
    TG_Root_Chunker,  \* address of the root Chunker
    TG_Top_Chunk,     \* address of the top Chunk
    TG_Head_Chunk,    \* address of the first Chunk of the top Chunk's Chunker
    chunkers,         \* addresses of the Chunkers ALLOC'd and not yet FREE'd
    next,             \* chunker address -> its `next` field
    mem,              \* chunk address -> the header written there
    live,             \* the callers' handles: one record per pushed chunk
    last,             \* what the last chunk operation was and returned
    \* ---- thrown-value channel (sys-frame.h) ----
    TG_Thrown_Arg,    \* the payload, or TRASH when nothing is pending
    cells,            \* the REBVAL cells used as labels and destinations
    tlast,            \* the last throw/catch call and the state before it
    \* ---- data stack (m-stacks.c) ----
    DS_Array,         \* the data stack's values, bottom first
    out,              \* the REBVAL `out` with the array it refers to
    dlast,            \* the last data stack call and the state before it
    DS_Rest,          \* SERIES_REST of DS_Array: the slots it has room for
    elast,            \* the last Expand_Stack call and the capacity before it
    \* ---- function descriptors (sys-frame.h) ----
    funcs,            \* the functions made so far: funcs[f] is REBFUN f
    ulast,            \* the last Underlying_Function call and its results
    \* ---- call frames (sys-frame.h, m-stacks.c) ----
    frames,           \* the frames constructed, the most recent last
    arrays,           \* the arrays Make_Array has returned: arrays[a]
    cvals,            \* values handle of a chunk -> the cells written there
    flast,            \* the last call on a frame and the state before it
    \* ---- error traps (the mark a trap saves of the chunk stack) ----
    trap,             \* the saved mark, and whether a fail() is unwinding
    \* ---- guards (sys-core.h) ----
    GC_Series_Guard,  \* the guarded series, the most recently pushed last
    GC_Value_Guard,   \* the guarded values, the most recently pushed last
    glast,            \* the last guard call and the stack before it
    \* ---- console line editor (host-readline.c) ----
    term,             \* the STD_TERM: buffer, pos, end, hist, out
    Line_History,     \* the lines of the history, Line_History[0] first
    Line_Count,       \* the number of lines the history holds
    Read_Line_pc,     \* "keys" inside Read_Line's loop, "idle" outside it
    klast,            \* the last key handled and the bytes it touched
    \* ---- all ----
    fault             \* "none", or the assert / fail() that ended the run

chunkVars == <<TG_Root_Chunker, TG_Top_Chunk, TG_Head_Chunk, chunkers, next,
               mem, live, last>>
throwVars == <<TG_Thrown_Arg, cells, tlast>>
dsVars == <<DS_Array, out, dlast>>
expVars == <<DS_Rest, elast>>
funcVars == <<funcs, ulast>>
frameVars == <<frames, arrays, cvals, flast>>
trapVars == <<trap>>
guardVars == <<GC_Series_Guard, GC_Value_Guard, glast>>
termVars == <<term, Line_History, Line_Count, Read_Line_pc, klast>>
vars == <<chunkVars, throwVars, dsVars, expVars, funcVars, frameVars,
          trapVars, guardVars, termVars, fault>>

\* what the calls on one component leave alone
nonChunkVars == <<throwVars, dsVars, expVars, funcVars, frameVars,
    trapVars, guardVars, termVars>>
nonThrowVars == <<chunkVars, dsVars, expVars, funcVars, frameVars,
    trapVars, guardVars, termVars>>
nonDSVars == <<chunkVars, throwVars, expVars, funcVars, frameVars,
    trapVars, guardVars, termVars>>
nonExpVars == <<chunkVars, throwVars, dsVars, funcVars, frameVars,
    trapVars, guardVars, termVars>>
nonFuncVars == <<chunkVars, throwVars, dsVars, expVars, frameVars,
    trapVars, guardVars, termVars>>
\* a frame's construction may push a chunk
nonFrameVars == <<throwVars, dsVars, expVars, funcVars, trapVars, guardVars,
    termVars>>
\* a trap reads the chunk stack and unwinds it
nonTrapVars == <<throwVars, dsVars, expVars, funcVars, frameVars, guardVars,
    termVars>>
nonGuardVars == <<chunkVars, throwVars, dsVars, expVars, funcVars, frameVars,
    trapVars, termVars>>
nonTermVars == <<chunkVars, throwVars, dsVars, expVars, funcVars, frameVars,
    trapVars, guardVars>>

NULL == 0
TRASH == -1

(***************************************************************************)
(* Sizes, in units of sizeof(void* ).  sys-stack.h, which defines struct   *)
(* Reb_Chunk, struct Reb_Chunker and CS_CHUNKER_PAYLOAD, is not among the  *)
(* sources; the header is {size, prev, payload_left} before values[], a    *)
(* REBVAL is four pointers wide.  The payload is scaled down so that a     *)
(* Chunker fills up after a few pushes.                                    *)
(***************************************************************************)
PtrSize == 1
BASE_CHUNK_SIZE == 2
ValSize == 4
CS_CHUNKER_PAYLOAD == 20

\* sizeof(struct Reb_Chunker): the `next` pointer, then the payload
ChunkerSize == PtrSize + CS_CHUNKER_PAYLOAD

\* ---- bounds of the model ----
MaxChunkers == 3     \* heap blocks ALLOC can hand out
MaxLive == 3         \* pushed chunks alive at once
MaxValues == 5       \* largest num_values a caller asks for

\* ALLOC(struct Reb_Chunker) returns one of these addresses
ChunkerAddrs == {b * ChunkerSize : b \in 1..MaxChunkers}

\* &chunker->payload
PayloadOf(chunker) == chunker + PtrSize

TrashHdr == [prev |-> TRASH, size |-> TRASH, payload_left |-> TRASH]

\* the header at address a (never written memory reads as trash: the debug
\* build fills a fresh Chunker with 0xBD)
Hdr(a) == IF a \in DOMAIN mem THEN mem[a] ELSE TrashHdr

CHUNK_FROM_VALUES(cv) == cv - BASE_CHUNK_SIZE

ValuesOf(chunk) == chunk + BASE_CHUNK_SIZE

CHUNKER_FROM_CHUNK(c) ==
    c + Hdr(c).size + Hdr(c).payload_left - ChunkerSize

\* the addresses of one Chunker's memory
InChunker(a, chunker) == a >= chunker /\ a < chunker + ChunkerSize

\* memory with nothing written in one Chunker: after FREE of the Chunker,
\* or when its last chunk is dropped and nothing in it is read again before
\* the next push writes it
FreeMem(m, chunker) ==
    [a \in {x \in DOMAIN m : ~InChunker(x, chunker)} |-> m[a]]

\* the allocator's state before a call, kept for a drop given a handle that
\* is not the top chunk's
NoPre == [top |-> NULL, head |-> NULL, chunkers |-> {}, next |-> <<>>]

NoLast == [op |-> "init", n |-> 0, values |-> NULL, alloc |-> FALSE,
           stepped |-> FALSE, topBefore |-> NULL, topAfter |-> NULL,
           freed |-> FALSE, afterDrop |-> FALSE, dn |-> 0,
           dvalues |-> NULL, dstepped |-> FALSE,
           wrong |-> FALSE, emptied |-> FALSE, pre |-> NoPre]

(***************************************************************************)
(* Init_Stacks: the root Chunker with one chunk of zero values on it.      *)
(***************************************************************************)
ChunkInit ==
    \E root \in ChunkerAddrs :
        /\ TG_Root_Chunker = root
        /\ chunkers = {root}
        /\ next = [c \in ChunkerAddrs |-> IF c = root THEN NULL ELSE TRASH]
        /\ TG_Top_Chunk = PayloadOf(root)
        /\ mem = (PayloadOf(root) :>
                     [prev |-> NULL, size |-> BASE_CHUNK_SIZE,
                      payload_left |-> CS_CHUNKER_PAYLOAD - BASE_CHUNK_SIZE])
                 @@ (PayloadOf(root) + BASE_CHUNK_SIZE :>
                     [TrashHdr EXCEPT !.size = 0])
        /\ TG_Head_Chunk = PayloadOf(root)
        /\ live = <<>>
        /\ last = NoLast

(***************************************************************************)
(* Push_Ended_Trash_Chunk(num_values)                                      *)
(***************************************************************************)
ChunkSize(num_values) == BASE_CHUNK_SIZE + num_values * ValSize

\* a push that tests only for the chunk, not for the pointer after it
FitsInPlace_NoEndRoom(size) == Hdr(TG_Top_Chunk).payload_left >= size

\* the topmost Chunker has space for the chunk and for a pointer after it
FitsInPlace(size) == Hdr(TG_Top_Chunk).payload_left >= size + PtrSize

\* a push that trusts the `prev` already in memory when carving in place
PushedPrev_Stale(chunk, stepped) ==
    IF stepped THEN TG_Top_Chunk ELSE Hdr(chunk).prev

\* chunk->prev = TG_Top_Chunk, on both paths
PushedPrev(chunk, stepped) == TG_Top_Chunk

\* assert(size % 4 == 0) holds of every size here: the sizes are counted in
\* pointers.
\* the part all paths of the push share: write the header, the terminator
\* after the chunk, make the chunk the top, return its values (the debug
\* build writes trash over the values: no header is left inside the chunk)
PushCommit(chunk, size, pleft, num_values, didAlloc, stepped) ==
    /\ mem' = (chunk :> [prev |-> PushedPrev(chunk, stepped), size |-> size,
                         payload_left |-> pleft])
              @@ (chunk + size :> [Hdr(chunk + size) EXCEPT !.size = 0])
              @@ [a \in {x \in DOMAIN mem : x < chunk \/ x > chunk + size}
                    |-> mem[a]]
    /\ TG_Top_Chunk' = chunk
    /\ live' = Append(live, [values |-> ValuesOf(chunk), n |-> num_values,
                             topBefore |-> TG_Top_Chunk,
                             stepped |-> stepped])
    /\ last' = [op |-> "push", n |-> num_values, values |-> ValuesOf(chunk),
                alloc |-> didAlloc, stepped |-> stepped,
                topBefore |-> TG_Top_Chunk, topAfter |-> chunk,
                freed |-> FALSE, afterDrop |-> (last.op = "drop"),
                dn |-> IF last.op = "drop" THEN last.n ELSE 0,
                dvalues |-> IF last.op = "drop" THEN last.values ELSE NULL,
                dstepped |-> IF last.op = "drop" THEN last.stepped ELSE FALSE,
                wrong |-> FALSE, emptied |-> FALSE, pre |-> NoPre]
    /\ fault' = "none"

\* The callers of the chunk stack push a chunk of any size while the model's
\* depth allows; a faulted run has ended.
\* the chunk stack is in use from Init_Stacks until Shutdown_Stacks has
\* freed the root Chunker
StacksUp == TG_Root_Chunker \in chunkers

PushCall ==
    /\ fault = "none"
    /\ StacksUp
    /\ Len(live) < MaxLive
    /\ UNCHANGED nonChunkVars

\* a push that takes the chunk's size on trust
ChunkFits_Unchecked(size) == TRUE

\* size + sizeof(struct Reb_Chunk * ) <= CS_CHUNKER_PAYLOAD: the chunk and
\* the pointer after it fit a Chunker with nothing in it
ChunkFits(size) == size + PtrSize <= CS_CHUNKER_PAYLOAD

\* carved in place, after the top chunk
PushPathInPlace(num_values) ==
    LET size == ChunkSize(num_values)
        chunk == TG_Top_Chunk + Hdr(TG_Top_Chunk).size
    IN  /\ FitsInPlace(size)
        /\ PushCommit(chunk, size, Hdr(TG_Top_Chunk).payload_left - size,
                      num_values, FALSE, FALSE)
        /\ UNCHANGED <<TG_Root_Chunker, TG_Head_Chunk, chunkers, next>>

\* assert(size + sizeof(struct Reb_Chunk * ) <= CS_CHUNKER_PAYLOAD) fails
PushPathTooBig(num_values) ==
    LET size == ChunkSize(num_values)
    IN  /\ ~FitsInPlace(size)
        /\ ~ChunkFits(size)
        /\ fault' = "assert_chunk_size"
        /\ last' = [NoLast EXCEPT !.op = "push_fault", !.n = num_values,
                                  !.topBefore = TG_Top_Chunk,
                                  !.pre = [top |-> TG_Top_Chunk,
                                           head |-> TG_Head_Chunk,
                                           chunkers |-> chunkers,
                                           next |-> next]]
        /\ UNCHANGED <<TG_Root_Chunker, TG_Top_Chunk, TG_Head_Chunk,
                       chunkers, next, mem, live>>

\* a push that never looks for the Chunker kept from a prior expansion
HasSpare_Never(chunker) == FALSE

\* if (chunker->next): a previously allocated Chunker exists to grow into
HasSpare(chunker) == next[chunker] # NULL

\* carved at the start of the Chunker kept from a prior expansion
PushPathReuse(num_values) ==
    LET size == ChunkSize(num_values)
        chunker == CHUNKER_FROM_CHUNK(TG_Top_Chunk)
        chunk == PayloadOf(next[chunker])
    IN  /\ ~FitsInPlace(size)
        /\ ChunkFits(size)
        /\ HasSpare(chunker)
        /\ IF next[next[chunker]] # NULL
           THEN /\ fault' = "assert_next_next"
                /\ UNCHANGED <<chunkVars>>
           ELSE /\ PushCommit(chunk, size, CS_CHUNKER_PAYLOAD - size,
                              num_values, FALSE, TRUE)
                /\ TG_Head_Chunk' = chunk
                /\ UNCHANGED <<TG_Root_Chunker, chunkers, next>>

\* carved at the start of a Chunker that ALLOC returns now
PushPathAlloc(num_values) ==
    LET size == ChunkSize(num_values)
        chunker == CHUNKER_FROM_CHUNK(TG_Top_Chunk)
    IN  /\ ~FitsInPlace(size)
        /\ ChunkFits(size)
        /\ ~HasSpare(chunker)
        /\ \E new \in ChunkerAddrs \ chunkers :
              /\ chunkers' = chunkers \cup {new}
              /\ next' = [next EXCEPT ![chunker] = new, ![new] = NULL]
              /\ PushCommit(PayloadOf(new), size, CS_CHUNKER_PAYLOAD - size,
                            num_values, TRUE, TRUE)
              /\ TG_Head_Chunk' = PayloadOf(new)
              /\ UNCHANGED TG_Root_Chunker

\* the four paths of a push made by a direct client of the chunk stack
PushInPlace(num_values) == PushCall /\ PushPathInPlace(num_values)

PushTooBig(num_values) == PushCall /\ PushPathTooBig(num_values)

PushReuse(num_values) == PushCall /\ PushPathReuse(num_values)

PushAlloc(num_values) == PushCall /\ PushPathAlloc(num_values)

Push_Ended_Trash_Chunk(num_values) ==
    \/ PushInPlace(num_values)
    \/ PushTooBig(num_values)
    \/ PushReuse(num_values)
    \/ PushAlloc(num_values)

(***************************************************************************)
(* Drop_Chunk(values)                                                      *)
(***************************************************************************)
\* a drop that steps back to the head of the Chunker instead of to `prev`
DropNewTop_Head(chunk) == TG_Head_Chunk

\* TG_Top_Chunk = chunk->prev
DropNewTop(chunk) == Hdr(chunk).prev

\* a drop that takes the new top chunk for the first of its Chunker
DropNewHead_Top(newTop) == newTop

\* TG_Head_Chunk = &CHUNKER_FROM_CHUNK(TG_Top_Chunk)->payload
DropNewHead(newTop) == PayloadOf(CHUNKER_FROM_CHUNK(newTop))

\* a drop that keeps every follow-on Chunker
DropFreesNext_Never(chunker) == FALSE

\* if (chunker->next) FREE(struct Reb_Chunker, chunker->next)
DropFreesNext(chunker) == next[chunker] # NULL

\* the word of a header that IS_END reads is its first one.  The asserts
\* after the terminator is written (IS_END(&chunk->values[num_values]), right
\* after `->size = 0`) and after the memset of a drop
\* (IS_END(cast(REBVAL*, chunk))) pass together only when that word is
\* `size`: a size has its low bits clear, 0xBD trash has not.
HdrIsEnd(a) == Hdr(a).size # TRASH

\* a memset(0xBD) over the whole chunk, its first word included
Poison_WholeChunk(m, chunk) ==
    IF chunk \in DOMAIN m
    THEN [m EXCEPT ![chunk] = TrashHdr]
    ELSE m

\* the debug build's memset(0xBD) over the chunk from its second word on:
\* the first word, `size`, is left as it was
Poison(m, chunk) ==
    IF chunk \in DOMAIN m
    THEN [m EXCEPT ![chunk].prev = TRASH, ![chunk].payload_left = TRASH]
    ELSE m

\* Memory past address a in its Chunker is dead once the chunk at a is
\* dropped: no path reads it before writing it again, and the model keeps it
\* as never written.
Forget(m, chunker, a) ==
    [x \in {y \in DOMAIN m : ~(InChunker(y, chunker) /\ y > a)} |-> m[x]]

\* a drop that takes no NULL: the handle has to be the top chunk's
DropHandleOk_NoNull(values, chunk) == CHUNK_FROM_VALUES(values) = chunk

\* a drop that never looks at the handle it is given
DropHandleOk_Unchecked(values, chunk) == TRUE

\* assert(!values || CHUNK_FROM_VALUES(values) == chunk)
DropHandleOk(values, chunk) ==
    values = NULL \/ CHUNK_FROM_VALUES(values) = chunk

Drop_Chunk(values) ==
    LET chunk == TG_Top_Chunk
        newTop == DropNewTop(chunk)
        chunker == chunk - PtrSize
        rec == live[Len(live)]
        wrong == values # NULL /\ ValuesOf(TG_Top_Chunk) # values
        pre == IF wrong
               THEN [top |-> TG_Top_Chunk, head |-> TG_Head_Chunk,
                     chunkers |-> chunkers, next |-> next]
               ELSE NoPre
    IN  IF ~DropHandleOk(values, chunk)
        THEN /\ fault' = "assert_not_top"
             /\ last' = [NoLast EXCEPT !.op = "drop_fault",
                                       !.values = values,
                                       !.topBefore = TG_Top_Chunk,
                                       !.wrong = wrong, !.pre = pre]
             /\ UNCHANGED <<TG_Root_Chunker, TG_Top_Chunk, TG_Head_Chunk,
                            chunkers, next, mem, live>>
        ELSE /\ TG_Top_Chunk' = newTop
             /\ live' = SubSeq(live, 1, Len(live) - 1)
             /\ last' = [NoLast EXCEPT !.op = "drop", !.n = rec.n,
                                       !.values = rec.values,
                                       !.stepped = rec.stepped,
                                       !.topBefore = rec.topBefore,
                                       !.topAfter = newTop,
                                       !.freed = (chunk = TG_Head_Chunk
                                           /\ DropFreesNext(chunker)),
                                       !.wrong = wrong,
                                       !.emptied = (chunk = TG_Head_Chunk),
                                       !.pre = pre]
             /\ UNCHANGED TG_Root_Chunker
             /\ IF chunk = TG_Head_Chunk
                THEN IF \/ CHUNKER_FROM_CHUNK(chunk) # chunker
                        \/ Hdr(chunk).payload_left + Hdr(chunk).size
                               # CS_CHUNKER_PAYLOAD
                        \/ newTop = NULL
                     THEN /\ fault' = "assert_head_chunk"
                          /\ UNCHANGED <<TG_Head_Chunk, chunkers, next, mem>>
                     ELSE /\ fault' = "none"
                          /\ TG_Head_Chunk' = DropNewHead(newTop)
                          /\ mem' = FreeMem(mem, chunker)
                          /\ IF DropFreesNext(chunker)
                             THEN /\ chunkers' = chunkers \ {next[chunker]}
                                  /\ next' = [next EXCEPT
                                               ![chunker] = NULL,
                                               ![next[chunker]] = TRASH]
                             ELSE UNCHANGED <<chunkers, next>>
                ELSE /\ fault' = "none"
                     /\ mem' = Forget(Poison(mem, chunk),
                                      CHUNKER_FROM_CHUNK(chunk), chunk)
                     /\ UNCHANGED <<TG_Head_Chunk, chunkers, next>>

\* The callers drop any handle they hold, or NULL (the error path, which
\* has no handle), while a pushed chunk is left.
CallDrop ==
    /\ fault = "none"
    /\ StacksUp
    /\ Len(live) > 0
    /\ \E i \in 0..Len(live) :
          Drop_Chunk(IF i = 0 THEN NULL ELSE live[i].values)
    /\ UNCHANGED nonChunkVars

(***************************************************************************)
(* Shutdown_Stacks.  TG_Do_Stack and CS_Running are as Init_Stacks left    *)
(* them (one entry, NULL): nothing here changes them, and the asserts on   *)
(* them hold.                                                              *)
(***************************************************************************)
\* the C index of the data stack's top value, -1 when it is empty
DSP == Len(DS_Array) - 1

\* a shutdown that takes the empty data stack to have pointer 0
ShutdownDSPOk_Zero == DSP = 0

\* assert(DSP == -1)
ShutdownDSPOk == DSP = -1

\* a shutdown that compares the top chunk with the head chunk
ShutdownTopOk_Head == TG_Top_Chunk = TG_Head_Chunk

\* assert(TG_Top_Chunk == cast(struct Reb_Chunk*, &TG_Root_Chunker->payload))
ShutdownTopOk == TG_Top_Chunk = PayloadOf(TG_Root_Chunker)

\* a shutdown that frees the root Chunker only
ShutdownFreesNext_Never(root) == FALSE

\* if (TG_Root_Chunker->next) FREE(struct Reb_Chunker, ...->next)
ShutdownFreesNext(root) == next[root] # NULL

Shutdown_Stacks ==
    LET spare == IF ShutdownFreesNext(TG_Root_Chunker)
                 THEN {next[TG_Root_Chunker]} ELSE {}
        freed == spare \cup {TG_Root_Chunker}
    IN  IF ~ShutdownTopOk
        THEN /\ fault' = "assert_top_is_root"
             /\ last' = [NoLast EXCEPT !.op = "shutdown",
                                       !.topBefore = TG_Top_Chunk]
             /\ UNCHANGED <<TG_Root_Chunker, TG_Top_Chunk, TG_Head_Chunk,
                            chunkers, next, mem, live>>
        ELSE /\ chunkers' = chunkers \ freed
             /\ next' = [c \in DOMAIN next |->
                            IF c \in freed THEN TRASH ELSE next[c]]
             /\ mem' = [a \in {x \in DOMAIN mem :
                                  \A c \in freed : ~InChunker(x, c)}
                           |-> mem[a]]
             /\ last' = [NoLast EXCEPT !.op = "shutdown",
                                       !.topBefore = TG_Top_Chunk,
                                       !.freed = (spare # {})]
             /\ fault' = IF ShutdownDSPOk THEN "none" ELSE "assert_dsp"
             /\ UNCHANGED <<TG_Root_Chunker, TG_Top_Chunk, TG_Head_Chunk,
                            live>>

\* the host shuts the stacks down at any time
CallShutdown ==
    /\ fault = "none"
    /\ StacksUp
    /\ Shutdown_Stacks
    /\ UNCHANGED nonChunkVars

ChunkNext ==
    \/ \E n \in 0..MaxValues : Push_Ended_Trash_Chunk(n)
    \/ CallDrop
    \/ CallShutdown

(***************************************************************************)
(* The thrown-value channel: CONVERT_NAME_TO_THROWN and CATCH_THROWN.      *)
(* A REBVAL is its content and its VALUE_FLAG_THROWN bit.  The payload a   *)
(* throw is given is an ordinary value (not flagged) in a cell that is not *)
(* the label's.                                                            *)
(***************************************************************************)
NumCells == 3        \* bound: the cells that serve as labels and destinations
MaxPayload == 2      \* bound: the contents a cell can have are 1..MaxPayload

Cells == 1..NumCells
Contents == 1..MaxPayload

Val(v) == [val |-> v, thrown |-> FALSE]

\* SET_TRASH_IF_DEBUG
TrashVal == [val |-> TRASH, thrown |-> FALSE]

IS_TRASH_DEBUG(v) == v.val = TRASH

THROWN(v) == v.thrown

\* a build with NDEBUG, where assert() checks nothing
AssertHolds_NDEBUG(cond) == TRUE

\* assert(cond) of the debug build: the run goes on only if cond holds
AssertHolds(cond) == cond

NoTLast == [op |-> "init", prevOp |-> "init", name |-> 0, arg |-> TrashVal,
            arg_out |-> 0,
            preCells |-> <<>>, preArg |-> TrashVal,
            tname |-> 0, targ |-> TrashVal]

ThrowInit ==
    /\ TG_Thrown_Arg = TrashVal
    /\ cells \in [Cells -> {Val(v) : v \in Contents}]
    /\ tlast = NoTLast

\* SET_VAL_FLAG(name, VALUE_FLAG_THROWN)
SetThrownFlag(c, name) == [c EXCEPT ![name].thrown = TRUE]

CONVERT_NAME_TO_THROWN(name, arg) ==
    LET flagged == SetThrownFlag(cells, name)
        call == [tlast EXCEPT !.op = "throw", !.prevOp = tlast.op,
                              !.name = name, !.arg = arg,
                              !.arg_out = 0, !.preCells = cells,
                              !.preArg = TG_Thrown_Arg]
    IN  IF ~AssertHolds(~THROWN(cells[name]))
        THEN /\ fault' = "assert_name_not_thrown"
             /\ tlast' = call
             /\ UNCHANGED <<TG_Thrown_Arg, cells>>
        ELSE IF ~AssertHolds(IS_TRASH_DEBUG(TG_Thrown_Arg))
        THEN /\ fault' = "assert_thrown_arg_trash"
             /\ cells' = flagged
             /\ tlast' = call
             /\ UNCHANGED TG_Thrown_Arg
        ELSE /\ fault' = "none"
             /\ cells' = flagged
             /\ TG_Thrown_Arg' = arg
             /\ tlast' = [call EXCEPT !.tname = name, !.targ = arg]

\* a catch that leaves the label flagged
ClearThrownFlag_Kept(c, thrown) == c

\* CLEAR_VAL_FLAG(thrown, VALUE_FLAG_THROWN)
ClearThrownFlag(c, thrown) == [c EXCEPT ![thrown].thrown = FALSE]

\* a catch that copies the label instead of the payload
CaughtValue_Label(c, thrown) == c[thrown]

\* *arg_out = TG_Thrown_Arg: the value copied out
CaughtValue(c, thrown) == TG_Thrown_Arg

\* a catch that clears the flag on a copy of the label and stores the copy
\* back after the payload is copied out
CatchStore_LabelLast(c, arg_out, thrown) ==
    [[c EXCEPT ![arg_out] = CaughtValue(c, thrown)]
        EXCEPT ![thrown] = [c[thrown] EXCEPT !.thrown = FALSE]]

\* CLEAR_VAL_FLAG(thrown, ...), then *arg_out = TG_Thrown_Arg: the cells
\* after both statements, in this order
CatchStore(c, arg_out, thrown) ==
    LET cleared == ClearThrownFlag(c, thrown)
    IN  [cleared EXCEPT ![arg_out] = CaughtValue(cleared, thrown)]

\* arg_out and thrown may be the same cell.  No cell here is an END marker,
\* so assert(!IS_END(thrown)) holds.
CATCH_THROWN(arg_out, thrown) ==
    LET cleared == ClearThrownFlag(cells, thrown)
        call == [tlast EXCEPT !.op = "catch", !.prevOp = tlast.op,
                              !.name = thrown,
                              !.arg = TrashVal, !.arg_out = arg_out,
                              !.preCells = cells, !.preArg = TG_Thrown_Arg]
    IN  /\ tlast' = call
        /\ IF ~AssertHolds(THROWN(cells[thrown]))
           THEN /\ fault' = "assert_thrown"
                /\ UNCHANGED <<TG_Thrown_Arg, cells>>
           ELSE IF ~AssertHolds(~IS_TRASH_DEBUG(TG_Thrown_Arg))
           THEN /\ fault' = "assert_thrown_arg_not_trash"
                /\ cells' = cleared
                /\ UNCHANGED TG_Thrown_Arg
           ELSE /\ fault' = "none"
                /\ cells' = CatchStore(cells, arg_out, thrown)
                /\ TG_Thrown_Arg' = TrashVal

CallThrow ==
    /\ fault = "none"
    /\ \E name \in Cells, p \in Contents :
          CONVERT_NAME_TO_THROWN(name, Val(p))
    /\ UNCHANGED nonThrowVars

CallCatch ==
    /\ fault = "none"
    /\ \E arg_out \in Cells, thrown \in Cells :
          CATCH_THROWN(arg_out, thrown)
    /\ UNCHANGED nonThrowVars

ThrowNext == CallThrow \/ CallCatch

(***************************************************************************)
(* The data stack: Pop_Stack_Values.  DS_Array holds the values bottom     *)
(* first; the C index i is the index i + 1 here, and DSP is the C index of *)
(* the top value (-1 when the stack is empty, as Shutdown_Stacks asserts). *)
(***************************************************************************)
MaxDepth == 3        \* bound: values on the data stack
MaxArray == 4        \* bound: length of the array behind `out`
MaxItem == 2         \* bound: the values pushed are 1..MaxItem

Items == 1..MaxItem

\* the arrays of at most n items
ArraysUpTo(n) == UNION {[1..k -> Items] : k \in 0..n}

NoDLast == [op |-> "init", dsp_start |-> -1, into |-> FALSE,
            preDS |-> <<>>, preOut |-> <<>>]

DSInit ==
    /\ DS_Array = <<>>
    /\ \E a \in ArraysUpTo(MaxArray - MaxDepth), l \in BOOLEAN :
          \E i \in 0..Len(a) :
             out = [array |-> a, index |-> i, locked |-> l]
    /\ dlast = NoDLast

\* DS_PUSH: append one value
DS_PUSH(v) ==
    /\ DS_Array' = Append(DS_Array, v)
    /\ dlast' = [NoDLast EXCEPT !.op = "push"]
    /\ fault' = "none"
    /\ UNCHANGED out

\* Insert_Series(series, index, data, len): the series with the len values
\* of data inserted at index
Insert_Series(series, index, data, len) ==
    SubSeq(series, 1, index) \o SubSeq(data, 1, len)
        \o SubSeq(series, index + 1, Len(series))

\* Copy_Values_Len_Shallow(values, len)
Copy_Values_Len_Shallow(values, len) == SubSeq(values, 1, len)

\* DS_DROP_TO(dsp): the stack cut so that DSP = dsp
DS_DROP_TO(dsp) == SubSeq(DS_Array, 1, dsp + 1)

\* REBCNT len = DSP - dsp_start
PopLen(dsp_start) == DSP - dsp_start

\* a pop that takes the values from the top down
PopValues_TopFirst(dsp_start) ==
    [i \in 1..(DSP - dsp_start) |-> DS_Array[Len(DS_Array) - i + 1]]

\* REBVAL *values = ARRAY_AT(DS_Array, dsp_start + 1)
PopValues(dsp_start) == SubSeq(DS_Array, dsp_start + 2, Len(DS_Array))

\* a pop that stores the old index back
IndexAfterInsert_Old(index, len) == index

\* VAL_INDEX(out) = Insert_Series(...): the index after the inserted values
IndexAfterInsert(index, len) == index + len

\* a pop that drops the range only when it made a new block
DropAfterPop_NewOnly(dsp_start, into) ==
    IF into THEN DS_Array ELSE DS_DROP_TO(dsp_start)

\* DS_DROP_TO(dsp_start), after either branch
DropAfterPop(dsp_start, into) == DS_DROP_TO(dsp_start)

\* a pop that inserts without looking at the destination's lock
FAIL_IF_LOCKED_ARRAY_Skipped(array) == FALSE

\* FAIL_IF_LOCKED_ARRAY(array): TRUE when it calls fail()
FAIL_IF_LOCKED_ARRAY(array) == array.locked

Pop_Stack_Values(dsp_start, into) ==
    LET len == PopLen(dsp_start)
        values == PopValues(dsp_start)
    IN  /\ dlast' = [op |-> "pop", dsp_start |-> dsp_start, into |-> into,
                     preDS |-> DS_Array, preOut |-> out]
        /\ IF into
           THEN IF FAIL_IF_LOCKED_ARRAY(out)
                THEN \* fail() leaves the function
                     /\ fault' = "fail_locked"
                     /\ UNCHANGED <<DS_Array, out>>
                ELSE /\ fault' = "none"
                     /\ out' = [out EXCEPT
                           !.array = Insert_Series(out.array, out.index,
                                                   values, len),
                           !.index = IndexAfterInsert(out.index, len)]
                     /\ DS_Array' = DropAfterPop(dsp_start, into)
           ELSE /\ fault' = "none"
                /\ out' = [array |-> Copy_Values_Len_Shallow(values, len),
                           index |-> 0, locked |-> FALSE]
                /\ DS_Array' = DropAfterPop(dsp_start, into)

CallDSPush ==
    /\ fault = "none"
    /\ StacksUp
    /\ Len(DS_Array) < MaxDepth
    /\ \E v \in Items : DS_PUSH(v)
    /\ UNCHANGED nonDSVars

\* a caller pops to a mark it took earlier: -1 <= dsp_start <= DSP
CallPop ==
    /\ fault = "none"
    /\ StacksUp
    /\ \E dsp_start \in -1..DSP, into \in BOOLEAN :
          /\ into => Len(out.array) + PopLen(dsp_start) <= MaxArray
          /\ Pop_Stack_Values(dsp_start, into)
    /\ UNCHANGED nonDSVars

\* the host shuts the stacks down with whatever the data stack holds
CallShutdownDS ==
    /\ fault = "none"
    /\ StacksUp
    /\ Shutdown_Stacks
    /\ dlast' = [NoDLast EXCEPT !.op = "shutdown", !.preDS = DS_Array]
    /\ UNCHANGED <<DS_Array, out, throwVars, expVars, funcVars, frameVars,
                   trapVars, guardVars, termVars>>

DSNext == CallDSPush \/ CallPop \/ CallShutdownDS

(***************************************************************************)
(* Expand_Stack: the data stack's capacity.  STACK_LIMIT is 400000 in      *)
(* sys-core.h; it is scaled down here, as are the amounts asked for.       *)
(* Extend_Series is not among the sources: it adds `amount` slots.         *)
(***************************************************************************)
STACK_LIMIT == 16

MaxAmount == 6       \* bound: the largest amount a caller asks for
MaxInitRest == 4     \* bound: the largest size Init_Stacks is given

NoELast == [op |-> "init", amount |-> 0, preRest |-> 0]

\* DS_Array = Make_Array(size)
ExpInit ==
    /\ DS_Rest \in 1..MaxInitRest
    /\ elast = NoELast

\* Extend_Series(series, delta): the capacity after it
Extend_Series(rest, delta) == rest + delta

\* if (SERIES_REST(ARRAY_SERIES(DS_Array)) >= STACK_LIMIT)
StackAtLimit == DS_Rest >= STACK_LIMIT

Expand_Stack(amount) ==
    /\ elast' = [op |-> "expand", amount |-> amount, preRest |-> DS_Rest]
    /\ IF StackAtLimit
       THEN \* Trap_Stack_Overflow() does not return
            /\ fault' = "stack_overflow"
            /\ UNCHANGED DS_Rest
       ELSE /\ fault' = "none"
            /\ DS_Rest' = Extend_Series(DS_Rest, amount)

CallExpand ==
    /\ fault = "none"
    /\ \E amount \in 1..MaxAmount : Expand_Stack(amount)
    /\ UNCHANGED nonExpVars

ExpNext == CallExpand

(***************************************************************************)
(* Function descriptors and Underlying_Function.  A REBFUN is its kind     *)
(* (plain, or one of the wrappers: specializer, adapter, chainer), the     *)
(* `misc.underlying` pointer cached in its paramlist, the function it      *)
(* wraps, the number of parameters of its paramlist, its durability and,   *)
(* for a specializer, its exemplar frame.  The code that makes functions   *)
(* is not among the sources; the cache is set as the comment above         *)
(* Underlying_Function describes: a specialization caches the function     *)
(* under all specializations, an adaptation or chain caches the            *)
(* specialization it is layered on when there is one.                      *)
(***************************************************************************)
MaxFuncs == 4        \* bound: the functions made
MaxParams == 1       \* bound: the parameters of a plain function

Void == [type |-> "void", n |-> 0]
Int5 == [type |-> "integer", n |-> 5]

IS_VOID(v) == v.type = "void"

IS_FUNCTION_SPECIALIZER(f) == funcs[f].kind = "specializer"
IS_FUNCTION_CHAINER(f) == funcs[f].kind = "chainer"
IS_FUNCTION_ADAPTER(f) == funcs[f].kind = "adapter"

FUNC_NUM_PARAMS(f) == funcs[f].num_params
IS_FUNC_DURABLE(f) == funcs[f].durable

\* ARR_SERIES(FUNC_PARAMLIST(f))->misc.underlying
CachedUnderlying(f) == funcs[f].underlying

\* a resolver that stops at the first hop
SecondHop_None(first) == first

\* underlying = ARR_SERIES(FUNC_PARAMLIST(underlying))->misc.underlying
SecondHop(first) == CachedUnderlying(first)

\* a resolver that reports no specializer when it takes the second hop
SecondHopSpecializer_None(first) == NULL

\* *specializer_out = underlying, before the second hop is followed
SecondHopSpecializer(first) == first

\* Underlying_Function up to return_and_check: the function returned, the
\* specializer stored in *specializer_out, the cached pointers followed
Underlying_Function(value) ==
    IF IS_FUNCTION_SPECIALIZER(value)
    THEN [underlying |-> CachedUnderlying(value), specializer |-> value,
          hops |-> 1]
    ELSE LET first == CachedUnderlying(value)
         IN  IF ~IS_FUNCTION_SPECIALIZER(first)
             THEN [underlying |-> first, specializer |-> NULL, hops |-> 1]
             ELSE [underlying |-> SecondHop(first),
                   specializer |-> SecondHopSpecializer(first), hops |-> 2]

\* the asserts after return_and_check
UnderlyingChecks(underlying) ==
    /\ underlying = CachedUnderlying(underlying)
    /\ ~IS_FUNCTION_SPECIALIZER(underlying)
    /\ ~IS_FUNCTION_CHAINER(underlying)
    /\ ~IS_FUNCTION_ADAPTER(underlying)

\* Underlying_Function_Debug: the same two results found by walking the
\* wrappers one by one, the specializer being the outermost one
RECURSIVE Underlying_Function_Debug(_)
Underlying_Function_Debug(f) ==
    IF funcs[f].kind = "plain"
    THEN [underlying |-> f, specializer |-> NULL]
    ELSE LET below == Underlying_Function_Debug(funcs[f].inner)
         IN  [underlying |-> below.underlying,
              specializer |-> IF IS_FUNCTION_SPECIALIZER(f) THEN f
                              ELSE below.specializer]

NoULast == [op |-> "init", value |-> NULL, underlying |-> NULL,
            specializer |-> NULL, hops |-> 0]

FuncInit ==
    /\ funcs = <<>>
    /\ ulast = NoULast

Funcs == 1..Len(funcs)

\* a plain function: its own underlying function
Make_Function(num_params, durable) ==
    funcs' = Append(funcs,
        [kind |-> "plain", underlying |-> Len(funcs) + 1, inner |-> NULL,
         num_params |-> num_params, durable |-> durable, exemplar |-> <<>>])

\* the exemplars a specialization of f can have: one value or void for each
\* parameter of the underlying function, the values of a specialization
\* below it kept
Exemplars(f) ==
    LET r == Underlying_Function(f)
        n == FUNC_NUM_PARAMS(r.underlying)
    IN  {e \in [1..n -> {Void, Int5}] :
            r.specializer # NULL =>
                \A i \in 1..n :
                    ~IS_VOID(funcs[r.specializer].exemplar[i]) =>
                        e[i] = funcs[r.specializer].exemplar[i]}

\* the parameters a specialization with exemplar e still takes
Unspecialized(e) == Cardinality({i \in DOMAIN e : IS_VOID(e[i])})

Specialize(f, e) ==
    funcs' = Append(funcs,
        [kind |-> "specializer",
         underlying |-> Underlying_Function(f).underlying, inner |-> f,
         num_params |-> Unspecialized(e),
         durable |-> IS_FUNC_DURABLE(Underlying_Function(f).underlying),
         exemplar |-> e])

\* an adaptation or a chain over f
Wrap(kind, f) ==
    LET r == Underlying_Function(f)
    IN  funcs' = Append(funcs,
            [kind |-> kind,
             underlying |-> IF r.specializer # NULL THEN r.specializer
                            ELSE r.underlying,
             inner |-> f, num_params |-> FUNC_NUM_PARAMS(f),
             durable |-> IS_FUNC_DURABLE(r.underlying), exemplar |-> <<>>])

MakeCall ==
    /\ fault = "none"
    /\ Len(funcs) < MaxFuncs
    /\ UNCHANGED <<ulast, fault>>
    /\ UNCHANGED nonFuncVars

CallMakeFunction ==
    /\ MakeCall
    /\ \E n \in 1..MaxParams, d \in BOOLEAN : Make_Function(n, d)

CallSpecialize ==
    /\ MakeCall
    /\ \E f \in Funcs : \E e \in Exemplars(f) : Specialize(f, e)

CallAdapt ==
    /\ MakeCall
    /\ \E f \in Funcs : Wrap("adapter", f)

CallChain ==
    /\ MakeCall
    /\ \E f \in Funcs : Wrap("chainer", f)

\* a call of Underlying_Function with its asserts, as the debug build runs it
CallUnderlying ==
    /\ fault = "none"
    /\ \E value \in Funcs :
          LET r == Underlying_Function(value)
              check == Underlying_Function_Debug(value)
          IN  /\ ulast' = [op |-> "resolve", value |-> value,
                           underlying |-> r.underlying,
                           specializer |-> r.specializer, hops |-> r.hops]
              /\ fault' = IF ~UnderlyingChecks(r.underlying)
                          THEN "assert_underlying"
                          ELSE IF \/ r.underlying # check.underlying
                                  \/ r.specializer # check.specializer
                          THEN "assert_underlying_check"
                          ELSE "none"
    /\ UNCHANGED funcs
    /\ UNCHANGED nonFuncVars

FuncNext ==
    \/ CallMakeFunction
    \/ CallSpecialize
    \/ CallAdapt
    \/ CallChain
    \/ CallUnderlying

(***************************************************************************)
(* Call frames.  Two routines construct a frame's argument storage:        *)
(* Push_Or_Alloc_Args_For_Underlying_Func (sys-frame.h) and                *)
(* Push_New_Arglist_For_Call (m-stacks.c).  A frame's storage is a chunk   *)
(* (its cells are cvals[handle]) or an array (arrays[a].slots); the cell   *)
(* with C index i is element i + 1 of the sequence.  An array carries its  *)
(* flags (fixed size, managed, CONTEXT_FLAG_STACK, SERIES_FLAG_HAS_DYNAMIC,*)
(* SERIES_FLAG_ACCESSIBLE) and the number of times Free_Array was called   *)
(* on it.                                                                  *)
(***************************************************************************)
MaxFrames == 3       \* bound: the frames constructed

End == [type |-> "end", n |-> 0]
TrashCell == [type |-> "trash", n |-> 0]
Unset == [type |-> "unset", n |-> 0]

IS_END(v) == v.type = "end"
IS_TRASH_CELL(v) == v.type = "trash"

\* the fewest parameters whose chunk does not fit a Chunker with nothing in
\* it
ManyParams ==
    CHOOSE n \in 1..CS_CHUNKER_PAYLOAD :
        /\ ~ChunkFits(ChunkSize(n))
        /\ ChunkFits(ChunkSize(n - 1))

\* the functions frames are constructed for: two plain functions of two
\* parameters (the second durable), a specialization of each, an adaptation
\* of a specialization, a chain over the durable function, a specialization
\* of the adaptation, a plain function of no parameters, and a plain
\* function of more parameters than a Chunker's payload has room for
FrameFuncs ==
    << [kind |-> "plain", underlying |-> 1, inner |-> NULL,
        num_params |-> 2, durable |-> FALSE, exemplar |-> <<>>],
       [kind |-> "plain", underlying |-> 2, inner |-> NULL,
        num_params |-> 2, durable |-> TRUE, exemplar |-> <<>>],
       [kind |-> "specializer", underlying |-> 1, inner |-> 1,
        num_params |-> 1, durable |-> FALSE, exemplar |-> <<Int5, Void>>],
       [kind |-> "specializer", underlying |-> 2, inner |-> 2,
        num_params |-> 1, durable |-> TRUE, exemplar |-> <<Void, Int5>>],
       [kind |-> "adapter", underlying |-> 3, inner |-> 3,
        num_params |-> 1, durable |-> FALSE, exemplar |-> <<>>],
       [kind |-> "chainer", underlying |-> 2, inner |-> 2,
        num_params |-> 2, durable |-> TRUE, exemplar |-> <<>>],
       [kind |-> "specializer", underlying |-> 1, inner |-> 5,
        num_params |-> 0, durable |-> FALSE, exemplar |-> <<Int5, Int5>>],
       [kind |-> "plain", underlying |-> 8, inner |-> NULL,
        num_params |-> 0, durable |-> FALSE, exemplar |-> <<>>],
       [kind |-> "plain", underlying |-> 9, inner |-> NULL,
        num_params |-> ManyParams, durable |-> FALSE, exemplar |-> <<>>] >>

\* *FUNC_VALUE(f): the function's own value
FUNC_VALUE(f) == [type |-> "function", n |-> f]

\* a frame that has not been constructed
NoFrame == [routine |-> "none", gotten |-> NULL, func |-> NULL,
            underlying |-> NULL, specializer |-> NULL, applying |-> FALSE,
            execute_frame |-> FALSE, param |-> 0, num_args |-> 0,
            stackvars |-> NULL, varlist |-> NULL, arg |-> 0]

\* the last call on a frame: a construction, a retirement (of frame
\* `index`, which was `frame` when the call was made) or an argument access
NoFLast == [op |-> "init", routine |-> "none", gotten |-> NULL,
            applying |-> FALSE, pre |-> NoPre,
            index |-> 0, frame |-> NoFrame, drop_chunks |-> FALSE,
            preArrays |-> <<>>, preLive |-> <<>>, n |-> 0, slot |-> NULL]

FrameInit ==
    /\ frames = <<>>
    /\ arrays = <<>>
    /\ cvals = [a \in {} |-> <<>>]
    /\ flast = NoFLast

\* the allocator's state when a construction is called
ChunkPre == [top |-> TG_Top_Chunk, head |-> TG_Head_Chunk,
             chunkers |-> chunkers, next |-> next]

\* Push_Ended_Trash_Chunk as a frame's construction calls it
PushForFrame(num_values) ==
    \/ PushPathInPlace(num_values)
    \/ PushPathTooBig(num_values)
    \/ PushPathReuse(num_values)
    \/ PushPathAlloc(num_values)

\* a fill that takes nothing from the exemplar
ArgSlot_NoExemplar(specializer, applying, i) ==
    IF applying THEN Void ELSE End

\* a fill that marks every unspecialized slot of a specialization pending
ArgSlot_PendingWhenSpecialized(specializer, applying, i) ==
    IF specializer # NULL
    THEN LET special_arg == funcs[specializer].exemplar[i]
         IN  IF IS_VOID(special_arg) THEN End ELSE special_arg
    ELSE IF applying THEN Void ELSE End

\* the three fill loops: what construction writes in the slot of parameter i
ArgSlot(specializer, applying, i) ==
    IF specializer # NULL
    THEN LET special_arg == funcs[specializer].exemplar[i]
         IN  IF IS_VOID(special_arg)
             THEN IF applying THEN Void ELSE End
             ELSE special_arg
    ELSE IF applying THEN Void ELSE End

\* a fill that stops one slot early
ArgSlots_LastLeft(specializer, applying, num_args) ==
    [i \in 1..num_args |->
        IF i = num_args THEN TrashCell
        ELSE ArgSlot(specializer, applying, i)]

\* the slots from f->arg on, once the loop has run num_args times
ArgSlots(specializer, applying, num_args) ==
    [i \in 1..num_args |-> ArgSlot(specializer, applying, i)]

\* an array without the slot for the context value
VarlistLen_ArgsOnly(num_args) == num_args

\* Make_Array(num_args + 1), TERM_ARRAY_LEN(f->varlist, num_args + 1)
VarlistLen(num_args) == num_args + 1

\* the array of a durable function: slot 0 is skipped (trash in the debug
\* build), the arguments follow; TERM_ARRAY_LEN ends it after its length
Varlist(args, num_args) ==
    [slots |-> [i \in 1..VarlistLen(num_args) |->
                   IF i = 1 THEN TrashCell
                   ELSE IF i - 1 <= num_args THEN args[i - 1]
                   ELSE TrashCell],
     len |-> VarlistLen(num_args), fixed |-> TRUE, managed |-> FALSE,
     stack |-> FALSE, dynamic |-> TRUE, accessible |-> TRUE, frees |-> 0]

\* CS_Running = NULL in Init_Stacks; no routine of the sources assigns it
\* again, and Shutdown_Stacks asserts it is still NULL
CS_Running == NULL

\* a construction that leaves the cursor at the end of the parameter list
FUNC_PARAMS_HEAD_End(f) == FUNC_NUM_PARAMS(f) + 1

\* FUNC_PARAMS_HEAD(f): the position of f's first parameter.  The cursor
\* f->param is a position in the underlying function's parameter list:
\* 1..FUNC_NUM_PARAMS are the typesets, the position after them is the END
FUNC_PARAMS_HEAD(f) == 1

\* NOT_END(f->param)
Is_Function_Frame_Fulfilling(f) == f.param <= FUNC_NUM_PARAMS(f.underlying)

\* CHUNK_LEN_FROM_VALUES(values), read from the header just written
CHUNK_LEN_FROM_VALUES(m, values) ==
    (m[CHUNK_FROM_VALUES(values)].size - BASE_CHUNK_SIZE) \div ValSize

Push_Or_Alloc_Args_For_Underlying_Func(gotten, applying) ==
    LET r == Underlying_Function(gotten)
        underlying == r.underlying
        specializer == r.specializer
        num_args == FUNC_NUM_PARAMS(underlying)
        args == ArgSlots(specializer, applying, num_args)
        frame == [routine |-> "underlying", gotten |-> gotten,
                  func |-> gotten, underlying |-> underlying,
                  specializer |-> specializer, applying |-> applying,
                  execute_frame |-> (specializer # NULL),
                  param |-> FUNC_PARAMS_HEAD(underlying),
                  num_args |-> num_args,
                  stackvars |-> NULL, varlist |-> NULL, arg |-> 0]
    IN  /\ flast' = [NoFLast EXCEPT !.op = "construct",
                                     !.routine = "underlying",
                                     !.gotten = gotten,
                                     !.applying = applying,
                                     !.pre = ChunkPre]
        /\ IF ~UnderlyingChecks(underlying)
           THEN /\ fault' = "assert_underlying"
                /\ UNCHANGED <<chunkVars, frames, arrays, cvals>>
           ELSE IF IS_FUNC_DURABLE(underlying)
           THEN /\ arrays' = Append(arrays, Varlist(args, num_args))
                /\ frames' = Append(frames,
                       [frame EXCEPT !.varlist = Len(arrays) + 1,
                                     !.arg = 1])
                /\ fault' = "none"
                /\ UNCHANGED <<chunkVars, cvals>>
           ELSE /\ PushForFrame(num_args)
                /\ IF fault' # "none"
                   THEN UNCHANGED <<frames, arrays, cvals>>
                   ELSE LET stackvars == ValuesOf(TG_Top_Chunk')
                        IN  /\ CHUNK_LEN_FROM_VALUES(mem', stackvars)
                                  = num_args
                            /\ cvals' = (stackvars :> args) @@ cvals
                            /\ frames' = Append(frames,
                                   [frame EXCEPT !.stackvars = stackvars])
                            /\ UNCHANGED arrays

\* ARRAY_LEN(FUNC_PARAMLIST(c->func)): the parameters and, in slot 0, the
\* function itself
ParamlistLen(func) == FUNC_NUM_PARAMS(func) + 1

\* IS_CLOSURE(FUNC_VALUE(c->func)): the functions whose variables outlive
\* the call
IS_CLOSURE(func) == funcs[func].durable

\* a construction that leaves slot 0 for later
SlotZero_Unset(func) == Unset

\* *slot = *FUNC_VALUE(c->func)
SlotZero(func) == FUNC_VALUE(func)

\* while (--num_slots) SET_UNSET(slot): the slots after slot 0
ArglistSlots(func, num_slots) ==
    [i \in 1..num_slots |-> IF i = 1 THEN SlotZero(func) ELSE Unset]

Push_New_Arglist_For_Call(func) ==
    LET num_slots == ParamlistLen(func)
        slots == ArglistSlots(func, num_slots)
        frame == [routine |-> "arglist", gotten |-> func,
                  func |-> func, underlying |-> func,
                  specializer |-> NULL, applying |-> FALSE,
                  execute_frame |-> FALSE,
                  param |-> 1, num_args |-> num_slots - 1,
                  stackvars |-> NULL, varlist |-> NULL, arg |-> 0]
    IN  /\ flast' = [NoFLast EXCEPT !.op = "construct",
                                     !.routine = "arglist",
                                     !.gotten = func,
                                     !.pre = ChunkPre]
        /\ IF IS_CLOSURE(func)
           THEN \* c->arglist.array, managed and of fixed size
                /\ arrays' = Append(arrays,
                       [slots |-> slots, len |-> num_slots,
                        fixed |-> TRUE, managed |-> TRUE,
                        stack |-> FALSE, dynamic |-> TRUE,
                        accessible |-> TRUE, frees |-> 0])
                /\ frames' = Append(frames,
                       [frame EXCEPT !.varlist = Len(arrays) + 1])
                /\ fault' = "none"
                /\ UNCHANGED <<chunkVars, cvals>>
           ELSE \* c->arglist.chunk
                /\ PushForFrame(num_slots)
                /\ IF fault' # "none"
                   THEN UNCHANGED <<frames, arrays, cvals>>
                   ELSE LET chunk == ValuesOf(TG_Top_Chunk')
                        IN  /\ cvals' = (chunk :> slots) @@ cvals
                            /\ frames' = Append(frames,
                                   [frame EXCEPT !.stackvars = chunk])
                            /\ UNCHANGED arrays

\* the cells of a frame's storage, slot 0 first
Storage(f) ==
    IF f.stackvars # NULL THEN cvals[f.stackvars]
    ELSE arrays[f.varlist].slots

\* FRM_ARG(f, n): f->arg + n - 1
FRM_ARG(f, n) == Storage(f)[f.arg + n]

\* the evaluator constructs a frame for a call while the model's depth
\* allows
FrameCall ==
    /\ fault = "none"
    /\ StacksUp
    /\ Len(frames) < MaxFrames
    /\ UNCHANGED nonFrameVars

CallPushOrAlloc ==
    /\ FrameCall
    /\ \E gotten \in Funcs, applying \in BOOLEAN :
          Push_Or_Alloc_Args_For_Underlying_Func(gotten, applying)

\* this routine knows no wrappers: its frames are for plain functions
CallPushNewArglist ==
    /\ FrameCall
    /\ \E func \in {f \in Funcs : funcs[f].kind = "plain"} :
          Push_New_Arglist_For_Call(func)

FrameNext ==
    \/ CallPushOrAlloc
    \/ CallPushNewArglist

(***************************************************************************)
(* Retiring a frame: Drop_Function_Args_For_Frame_Core (sys-frame.h) and   *)
(* Drop_Call_Arglist (m-stacks.c); reaching an argument: FRM_ARG and       *)
(* DSF_ARG_Debug.  The debug build overwrites the retired frame's pointers *)
(* with 0xDECAFBAD.  Context_For_Frame_May_Reify_Managed, Free_Array,      *)
(* FRM_ARG_Debug and DSF_ARGC are not among the sources.                   *)
(***************************************************************************)
MaxNested == 2       \* bound: the frames constructed before retirement
MaxArgIndex == 3     \* bound: the largest n an argument is asked for with

DECAFBAD == -2

\* the frame has been through one of the retiring routines
Retired(f) == f.stackvars = DECAFBAD \/ f.arg = DECAFBAD

LiveFrames(routine) ==
    {i \in 1..Len(frames) :
        frames[i].routine = routine /\ ~Retired(frames[i])}

\* the stub a chunk-backed frame is given when it is reified: managed, its
\* data pointer into the chunk stack (no dynamic data of its own)
StackContext ==
    [slots |-> <<>>, len |-> 0, fixed |-> TRUE, managed |-> TRUE,
     stack |-> TRUE, dynamic |-> FALSE, accessible |-> TRUE, frees |-> 0]

\* a first-class reference to the frame's variables is made: the array of a
\* durable function becomes managed, a chunk-backed frame gets a stub
Context_For_Frame_May_Reify_Managed(i) ==
    LET f == frames[i]
    IN  /\ flast' = [NoFLast EXCEPT !.op = "reify", !.routine = f.routine,
                                    !.index = i, !.frame = f,
                                    !.pre = ChunkPre, !.preArrays = arrays,
                                    !.preLive = live]
        /\ IF f.varlist # NULL
           THEN /\ arrays' = [arrays EXCEPT ![f.varlist].managed = TRUE]
                /\ UNCHANGED frames
           ELSE /\ arrays' = Append(arrays, StackContext)
                /\ frames' = [frames EXCEPT ![i].varlist = Len(arrays) + 1]
        /\ fault' = "none"
        /\ UNCHANGED <<chunkVars, cvals>>

\* a retirement that drops the chunk on the error path too
Dropping_Always(f, drop_chunks) == f.stackvars # NULL

\* a retirement that leaves every chunk to someone else
Dropping_Never(f, drop_chunks) == FALSE

\* if (drop_chunks && f->stackvars)
Dropping(f, drop_chunks) == drop_chunks /\ f.stackvars # NULL

\* Free_Array(f->varlist): the array's memory goes back to the allocator
Free_Array(a) == [a EXCEPT !.frees = @ + 1, !.slots = <<>>]

\* a retirement that leaves the stub as it was
ClearAccessible_Kept(a) == a

\* CLEAR_ARR_FLAG(f->varlist, SERIES_FLAG_ACCESSIBLE)
ClearAccessible(a) == [a EXCEPT !.accessible = FALSE]

\* the asserts on a managed varlist: dynamic data when no stack memory is
\* tracked; otherwise no dynamic data and still accessible
VarlistChecks(a) ==
    IF ~a.stack THEN a.dynamic ELSE ~a.dynamic /\ a.accessible

\* a retirement that frees no array
RetireVarlist_NoFree(as, v) ==
    IF v = NULL THEN as
    ELSE IF ~as[v].managed THEN as
    ELSE IF ~as[v].stack THEN as
    ELSE [as EXCEPT ![v] = ClearAccessible(as[v])]

\* a retirement that is finished with any managed varlist
RetireVarlist_StubKept(as, v) ==
    IF v = NULL THEN as
    ELSE IF ~as[v].managed THEN [as EXCEPT ![v] = Free_Array(as[v])]
    ELSE as

\* what the routine does with f->varlist, from `if (f->varlist == NULL)` on
RetireVarlist(as, v) ==
    IF v = NULL THEN as
    ELSE IF ~as[v].managed THEN [as EXCEPT ![v] = Free_Array(as[v])]
    ELSE IF ~as[v].stack THEN as
    ELSE [as EXCEPT ![v] = ClearAccessible(as[v])]

\* the cells of a dropped chunk are poisoned: nothing is read there again
DropCells(cv, values) == [h \in DOMAIN cv \ {values} |-> cv[h]]

\* the record of a retirement
RetireRecord(i, drop_chunks) ==
    [NoFLast EXCEPT !.op = "retire", !.routine = frames[i].routine,
                    !.index = i, !.frame = frames[i],
                    !.drop_chunks = drop_chunks, !.pre = ChunkPre,
                    !.preArrays = arrays, !.preLive = live]

\* A failed assert of Drop_Chunk ends the run where it is.  The asserts on
\* the varlist hold of every array made here (a stub is accessible until its
\* frame is retired, and a frame is retired once).
Drop_Function_Args_For_Frame_Core(i, drop_chunks) ==
    LET f == frames[i]
        v == f.varlist
        checks == IF v = NULL THEN TRUE
                  ELSE IF ~arrays[v].managed THEN TRUE
                  ELSE VarlistChecks(arrays[v])
    IN  /\ flast' = RetireRecord(i, drop_chunks)
        /\ IF Dropping(f, drop_chunks)
           THEN Drop_Chunk(f.stackvars) /\ checks
           ELSE /\ fault' = IF checks THEN "none" ELSE "assert_varlist"
                /\ UNCHANGED chunkVars
        /\ IF fault' # "none"
           THEN UNCHANGED <<frames, arrays, cvals>>
           ELSE /\ frames' = [frames EXCEPT ![i] =
                       [f EXCEPT !.execute_frame = FALSE,
                                 !.stackvars = DECAFBAD,
                                 !.varlist = DECAFBAD]]
                /\ arrays' = RetireVarlist(arrays, v)
                /\ cvals' = IF Dropping(f, drop_chunks)
                            THEN DropCells(cvals, f.stackvars)
                            ELSE cvals

\* Drop_Call_Arglist: the closure's array was managed and is left alone, any
\* other function's chunk is dropped; arglist.array = NULL clears the union
Drop_Call_Arglist(i) ==
    LET f == frames[i]
    IN  /\ flast' = RetireRecord(i, TRUE)
        /\ IF IS_CLOSURE(f.func)
           THEN /\ fault' = IF arrays[f.varlist].managed THEN "none"
                            ELSE "assert_managed"
                /\ UNCHANGED chunkVars
           ELSE Drop_Chunk(f.stackvars)
        /\ IF fault' # "none"
           THEN UNCHANGED <<frames, arrays, cvals>>
           ELSE /\ frames' = [frames EXCEPT ![i] =
                       [f EXCEPT !.stackvars = NULL, !.varlist = NULL,
                                 !.arg = DECAFBAD]]
                /\ cvals' = IF IS_CLOSURE(f.func) THEN cvals
                            ELSE DropCells(cvals, f.stackvars)
                /\ UNCHANGED arrays

\* an index check that lets 0 through
ArgInRange_ZeroOk(count, n) == n <= count

\* assert(n != 0 && n <= DSF_ARGC(call)), and the same in FRM_ARG_Debug
ArgInRange(count, n) == n # 0 /\ n <= count

\* DSF_ARGC(call): the parameters of the call's function
DSF_ARGC(f) == ParamlistLen(f.func) - 1

\* the place in the frame's storage (slot 0 first, from 1) that &arg[n - 1]
\* is, for the arg pointer Push_Or_Alloc_Args_For_Underlying_Func set
FRM_ARG_Index(f, n) == f.arg + n

\* &call->arg[n]: call->arg is at slot 0 of the arglist
DSF_ARG_Index(f, n) == f.arg + n + 1

FRM_ARG_Debug(f, n) ==
    IF ArgInRange(f.num_args, n) THEN FRM_ARG_Index(f, n) ELSE NULL

DSF_ARG_Debug(f, n) ==
    IF ArgInRange(DSF_ARGC(f), n) THEN DSF_ARG_Index(f, n) ELSE NULL

\* the accessor of the frame's kind
ArgAddr(f, n) ==
    IF f.routine = "arglist" THEN DSF_ARG_Debug(f, n)
    ELSE FRM_ARG_Debug(f, n)

\* a native asks for its n-th argument
Arg(i, n) ==
    LET f == frames[i]
        slot == ArgAddr(f, n)
    IN  /\ flast' = [NoFLast EXCEPT !.op = "arg", !.routine = f.routine,
                                    !.index = i, !.frame = f, !.n = n,
                                    !.slot = slot, !.pre = ChunkPre,
                                    !.preArrays = arrays, !.preLive = live]
        /\ fault' = IF slot = NULL THEN "assert_arg_index" ELSE "none"
        /\ UNCHANGED <<chunkVars, frames, arrays, cvals>>

\* the frame's variables are behind a managed array
Reified(f) == IF f.varlist = NULL THEN FALSE ELSE arrays[f.varlist].managed

\* the functions the retired frames are for: the two plain functions of two
\* parameters, the specialization of the first, and the plain function of
\* no parameters
RetireFuncs == {1, 2, 3, 8}

RetireCall ==
    /\ fault = "none"
    /\ StacksUp
    /\ UNCHANGED nonFrameVars

CallConstruct ==
    /\ RetireCall
    /\ Len(frames) < MaxNested
    /\ \E gotten \in RetireFuncs :
          Push_Or_Alloc_Args_For_Underlying_Func(gotten, FALSE)

CallConstructArglist ==
    /\ RetireCall
    /\ Len(frames) < MaxNested
    /\ \E func \in {f \in RetireFuncs : funcs[f].kind = "plain"} :
          Push_New_Arglist_For_Call(func)

\* a frame is reified at most once
CallReify ==
    /\ RetireCall
    /\ \E i \in {j \in LiveFrames("underlying") : ~Reified(frames[j])} :
          Context_For_Frame_May_Reify_Managed(i)

\* any frame still there is retired, on the normal path or on the error path
CallRetire ==
    /\ RetireCall
    /\ \E i \in LiveFrames("underlying"), drop_chunks \in BOOLEAN :
          Drop_Function_Args_For_Frame_Core(i, drop_chunks)

CallDropArglist ==
    /\ RetireCall
    /\ \E i \in LiveFrames("arglist") : Drop_Call_Arglist(i)

CallArg ==
    /\ RetireCall
    /\ \E i \in LiveFrames("underlying") \cup LiveFrames("arglist"),
          n \in 0..MaxArgIndex : Arg(i, n)

RetireNext ==
    \/ CallConstruct
    \/ CallConstructArglist
    \/ CallReify
    \/ CallRetire
    \/ CallDropArglist
    \/ CallArg

(***************************************************************************)
(* The error trap's view of the chunk stack.  A trap saves TG_Top_Chunk as *)
(* its mark; a fail() jumps to the trap, which calls Drop_Chunk(NULL) until *)
(* TG_Top_Chunk is the mark again (the frames between have no handle left  *)
(* to give).  The trap's own code is not among the sources: Drop_Chunk's   *)
(* NULL case and the note above Drop_Function_Args_For_Frame_Core describe *)
(* it.  While the trap is set no chunk pushed before it is dropped.        *)
(***************************************************************************)
NoTrap == [active |-> FALSE, unwinding |-> FALSE, top |-> NULL,
           head |-> NULL, live |-> <<>>, dropped |-> 0]

TrapInit == trap = NoTrap

TrapCall ==
    /\ fault = "none"
    /\ StacksUp
    /\ UNCHANGED nonTrapVars

\* the trap is set: the mark is the top chunk of now
CallPushTrap ==
    /\ TrapCall
    /\ ~trap.active /\ ~trap.unwinding
    /\ trap' = [active |-> TRUE, unwinding |-> FALSE, top |-> TG_Top_Chunk,
                head |-> TG_Head_Chunk, live |-> live, dropped |-> 0]
    /\ UNCHANGED <<chunkVars, fault>>

\* the code under the trap pushes a chunk
TrapPush ==
    /\ TrapCall
    /\ ~trap.unwinding
    /\ Len(live) < MaxLive
    /\ \E n \in 0..MaxValues : PushForFrame(n)
    /\ UNCHANGED trap

\* the code under the trap drops the chunk it pushed last
TrapDrop ==
    /\ TrapCall
    /\ ~trap.unwinding
    /\ Len(live) > (IF trap.active THEN Len(trap.live) ELSE 0)
    /\ Drop_Chunk(live[Len(live)].values)
    /\ UNCHANGED trap

\* fail(): control jumps to the trap
CallFail ==
    /\ TrapCall
    /\ trap.active
    /\ trap' = [trap EXCEPT !.active = FALSE, !.unwinding = TRUE]
    /\ UNCHANGED <<chunkVars, fault>>

\* while (TG_Top_Chunk != mark)
AtMark == TG_Top_Chunk = trap.top

\* one turn of the trap's loop: Drop_Chunk(NULL)
UnwindStep ==
    /\ TrapCall
    /\ trap.unwinding
    /\ ~AtMark
    /\ Drop_Chunk(NULL)
    /\ trap' = [trap EXCEPT !.dropped = @ + 1]

\* the loop has ended: the trapped code's caller goes on
UnwindDone ==
    /\ TrapCall
    /\ trap.unwinding
    /\ AtMark
    /\ trap' = NoTrap
    /\ UNCHANGED <<chunkVars, fault>>

TrapNext ==
    \/ CallPushTrap
    \/ TrapPush
    \/ TrapDrop
    \/ CallFail
    \/ UnwindStep
    \/ UnwindDone

(***************************************************************************)
(* Guards (sys-core.h): a stack of series and a stack of values kept from  *)
(* the collector.  Guard_Series_Core and Guard_Value_Core are not among    *)
(* the sources: they append to the stack.  A drop is made while the stack  *)
(* has a guard on it.                                                      *)
(***************************************************************************)
MaxGuards == 3       \* bound: guards on one stack
NumGuarded == 2      \* bound: the series (or values) that get guarded

Guarded == 1..NumGuarded

NoGLast == [op |-> "init", kind |-> "none", arg |-> NULL, pre |-> <<>>]

GuardInit ==
    /\ GC_Series_Guard = <<>>
    /\ GC_Value_Guard = <<>>
    /\ glast = NoGLast

\* Guard_Series_Core(s), Guard_Value_Core(v)
Guard_Core(stack, p) == Append(stack, p)

\* a drop that takes whatever is on top
GuardDropOk_Any(stack, len, p) == TRUE

\* assert((s) == data[len]), after len--
GuardDropOk(stack, len, p) == p = stack[len + 1]

\* content.dynamic.len--: the guards that are left
GuardsLeft(stack) == SubSeq(stack, 1, Len(stack) - 1)

GuardCall ==
    /\ fault = "none"
    /\ UNCHANGED nonGuardVars

PUSH_GUARD_SERIES ==
    /\ GuardCall
    /\ Len(GC_Series_Guard) < MaxGuards
    /\ \E s \in Guarded :
          /\ GC_Series_Guard' = Guard_Core(GC_Series_Guard, s)
          /\ glast' = [op |-> "push", kind |-> "series", arg |-> s,
                       pre |-> GC_Series_Guard]
    /\ UNCHANGED <<GC_Value_Guard, fault>>

PUSH_GUARD_VALUE ==
    /\ GuardCall
    /\ Len(GC_Value_Guard) < MaxGuards
    /\ \E v \in Guarded :
          /\ GC_Value_Guard' = Guard_Core(GC_Value_Guard, v)
          /\ glast' = [op |-> "push", kind |-> "value", arg |-> v,
                       pre |-> GC_Value_Guard]
    /\ UNCHANGED <<GC_Series_Guard, fault>>

DROP_GUARD_SERIES ==
    /\ GuardCall
    /\ Len(GC_Series_Guard) > 0
    /\ \E s \in Guarded :
          /\ GC_Series_Guard' = GuardsLeft(GC_Series_Guard)
          /\ fault' = IF GuardDropOk(GC_Series_Guard,
                                     Len(GC_Series_Guard) - 1, s)
                      THEN "none" ELSE "assert_guard"
          /\ glast' = [op |-> "drop", kind |-> "series", arg |-> s,
                       pre |-> GC_Series_Guard]
    /\ UNCHANGED GC_Value_Guard

DROP_GUARD_VALUE ==
    /\ GuardCall
    /\ Len(GC_Value_Guard) > 0
    /\ \E v \in Guarded :
          /\ GC_Value_Guard' = GuardsLeft(GC_Value_Guard)
          /\ fault' = IF GuardDropOk(GC_Value_Guard,
                                     Len(GC_Value_Guard) - 1, v)
                      THEN "none" ELSE "assert_guard"
          /\ glast' = [op |-> "drop", kind |-> "value", arg |-> v,
                       pre |-> GC_Value_Guard]
    /\ UNCHANGED GC_Series_Guard

GuardNext ==
    \/ PUSH_GUARD_SERIES
    \/ PUSH_GUARD_VALUE
    \/ DROP_GUARD_SERIES
    \/ DROP_GUARD_VALUE

(***************************************************************************)
(* The line editor of the console (the readline part of                    *)
(* src/src/os/posix/host-readline.c).  TERM_BUF_LEN and MAX_HISTORY are    *)
(* scaled down so that a line reaches its maximum length and the history   *)
(* fills after a few keys.  The edit buffer is kept as its first `end`     *)
(* bytes: Read_Line, Recall_Line and Store_Line treat the bytes from       *)
(* buffer[end] on as scratch, and the editing moves never bring one of     *)
(* them below `end`.  Every call records the indices of the buffer it      *)
(* reads or writes.                                                        *)
(***************************************************************************)
TERM_BUF_LEN == 3
MAX_HISTORY == 3

\* ---- bounds of the model ----
MaxChar == 2         \* bound: the printable characters that get typed

Chars == 1..MaxChar

\* a line is the sequence of its characters, the terminator left out
empty_line == <<>>

\* the keys Process_Key tells apart
EditKeys == {"BS", "CR", "HOME", "LEFT", "DEL", "END", "RIGHT", "UP", "DOWN",
             "CLEAR"}
Keys == {<<"char", c>> : c \in Chars} \cup {<<k, 0>> : k \in EditKeys}

\* the indices of the TERM_BUF_LEN bytes Init_Terminal allocates
BufferIndices == 0..(TERM_BUF_LEN - 1)

NoKLast == [op |-> "init", touched |-> {}, full |-> FALSE,
            freed |-> <<>>, oldest |-> <<>>, entered |-> <<>>]

\* Init_Terminal: the history holds the empty line, the STD_TERM is
\* zero-filled and its buffer starts with a terminator
TermInit ==
    /\ Line_History = <<empty_line>>
    /\ Line_Count = 1
    /\ term = [buffer |-> <<>>, pos |-> 0, end |-> 0, hist |-> 0,
               out |-> <<>>]
    /\ Read_Line_pc = "idle"
    /\ klast = NoKLast

\* the call on `t` reads or writes buffer[a..b]
Touch(t, a, b) == [t EXCEPT !.touched = @ \cup a..b]

\* buffer[i], for the bytes of the line; the bytes after them are scratch
Byte(b, i) == IF i >= 0 /\ i < Len(b) THEN b[i + 1] ELSE TRASH

\* buffer[i] after memmove(buffer + dest, buffer + src, len)
memmove(b, dest, src, len, i) ==
    IF i >= dest /\ i < dest + len THEN Byte(b, src + i - dest)
    ELSE Byte(b, i)

\* Show_Line(term, blanks): clips pos, then writes the line out from pos, or
\* from its start when blanks is negative
Show_Line(t, blanks) ==
    LET pos == IF t.pos < 0 THEN 0
               ELSE IF t.pos > t.end THEN t.end ELSE t.pos
        t1 == [t EXCEPT !.pos = pos]
    IN  IF blanks >= 0 THEN Touch(t1, pos, t.end - 1)
        ELSE Touch(t1, 0, t.end - 1)

Home_Line(t) == [t EXCEPT !.pos = 0]

End_Line(t) ==
    IF t.end - t.pos > 0
    THEN [Touch(t, t.pos, t.end - 1) EXCEPT !.pos = t.end]
    ELSE t

Move_Cursor(t, count) ==
    IF count < 0
    THEN IF t.pos > 0 THEN [t EXCEPT !.pos = t.pos - 1] ELSE t
    ELSE IF t.pos < t.end
         THEN [Touch(t, t.pos, t.pos) EXCEPT !.pos = t.pos + 1]
         ELSE t

\* an insertion that takes a character whenever the buffer has a byte left
InsertRoom_NoTerminator(t) == t.end < TERM_BUF_LEN

\* if (term->end < TERM_BUF_LEN-1): avoid buffer overrun
InsertRoom(t) == t.end < TERM_BUF_LEN - 1

Insert_Char(t, c) ==
    IF InsertRoom(t)
    THEN LET open == t.pos < t.end
             len == 1 + t.end - t.pos
             moved(i) == IF open
                         THEN memmove(t.buffer, t.pos + 1, t.pos, len, i)
                         ELSE Byte(t.buffer, i)
             buf == [j \in 1..(t.end + 1) |->
                        IF j - 1 = t.pos THEN c ELSE moved(j - 1)]
             t1 == IF open THEN Touch(t, t.pos, t.end + 1) ELSE t
             t2 == Touch(t1, t.pos, t.pos)
         IN  Show_Line([t2 EXCEPT !.buffer = buf, !.end = t.end + 1,
                                  !.pos = t.pos + 1], 0)
    ELSE t

\* the memmove reads buffer[pos+1 .. pos+len] and writes buffer[pos ..
\* pos+len-1], with len = 1 + end - pos
Delete_Char(t, back) ==
    IF t.pos = t.end /\ ~back THEN t
    ELSE LET pos == IF back THEN t.pos - 1 ELSE t.pos
             len == 1 + t.end - pos
         IN  IF pos >= 0 /\ len > 0
             THEN LET buf == [j \in 1..(t.end - 1) |->
                                 memmove(t.buffer, pos, pos + 1, len, j - 1)]
                      t1 == Touch(t, pos, pos + len)
                  IN  Show_Line([t1 EXCEPT !.buffer = buf,
                                           !.end = t.end - 1,
                                           !.pos = pos], 1)
             ELSE [t EXCEPT !.pos = 0]

\* Recall_Line, with the history H of `count` lines
Recall_Line(t, H, count) ==
    LET hist == IF t.hist < 0 THEN 0 ELSE t.hist
    IN  IF hist >= count
        THEN [Touch(t, 0, 0) EXCEPT !.hist = count, !.buffer = <<>>,
                                    !.pos = 0, !.end = 0]
        ELSE LET line == H[hist + 1]
             IN  [Touch(t, 0, Len(line)) EXCEPT
                     !.hist = hist, !.buffer = line,
                     !.pos = Len(line), !.end = Len(line)]

\* the arrow keys: case 'A' takes two off hist and falls through to 'B'
Arrow(t, H, count, up) ==
    LET len == t.end
        t1 == [t EXCEPT !.hist = IF up THEN t.hist - 1 ELSE t.hist + 1]
        t2 == Recall_Line(Home_Line(t1), H, count)
        blanks == IF len <= t2.end THEN 0 ELSE t2.end - len
    IN  Show_Line(t2, blanks - 1)

\* a shift that leaves the newest of the old lines where it is
HistoryShiftCount_Short == MAX_HISTORY - 3

\* memmove(Line_History + 1, Line_History + 2, (MAX_HISTORY - 2) pointers)
HistoryShiftCount == MAX_HISTORY - 2

\* Line_History[i], for the lines the history holds
Slot(H, i) == IF i >= 0 /\ i < Len(H) THEN H[i + 1] ELSE <<TRASH>>

\* Store_Line's history part: the lines and their count after `line` is
\* stored, and the line it freed
Store_History(H, count, line) ==
    LET full == count >= MAX_HISTORY
        n == IF full THEN MAX_HISTORY - 1 ELSE count
        shifted(i) == IF full /\ i >= 1 /\ i < 1 + HistoryShiftCount
                      THEN Slot(H, i + 1) ELSE Slot(H, i)
    IN  [lines |-> [k \in 1..(n + 1) |->
                       IF k - 1 = n THEN line ELSE shifted(k - 1)],
         count |-> n + 1,
         full |-> full,
         freed |-> IF full THEN <<Slot(H, 1)>> ELSE <<>>]

\* Store_Line's terminal part: the terminator, and the copy in term->out
Store_Line(t) ==
    [Touch(t, 0, t.end) EXCEPT !.out = <<t.buffer>>]

\* the MAX_HISTORY - 1 lines entered last, with `line` the newest of them
Recent(entered, line) ==
    LET all == Append(entered, line)
    IN  IF Len(all) > MAX_HISTORY - 1
        THEN SubSeq(all, Len(all) - MAX_HISTORY + 2, Len(all))
        ELSE all

\* the terminal after Process_Key has handled key k
Process_Key(t, k) ==
    CASE k[1] = "char" -> Insert_Char(t, k[2])
      [] k[1] = "BS" -> Delete_Char(t, TRUE)
      [] k[1] = "DEL" -> Delete_Char(t, FALSE)
      [] k[1] = "CR" -> Store_Line(t)
      [] k[1] = "HOME" -> Home_Line(t)
      [] k[1] = "END" -> End_Line(t)
      [] k[1] = "LEFT" -> Move_Cursor(t, -1)
      [] k[1] = "RIGHT" -> Move_Cursor(t, 1)
      [] k[1] = "UP" -> Arrow(t, Line_History, Line_Count, TRUE)
      [] k[1] = "DOWN" -> Arrow(t, Line_History, Line_Count, FALSE)
      [] OTHER -> t

\* the fields of the STD_TERM
TermOf(t) == [buffer |-> t.buffer, pos |-> t.pos, end |-> t.end,
              hist |-> t.hist, out |-> t.out]

TermCall ==
    /\ fault = "none"
    /\ UNCHANGED nonTermVars

\* Read_Line, up to its first Read_Bytes
CallReadLine ==
    /\ TermCall
    /\ Read_Line_pc = "idle"
    /\ term' = [term EXCEPT !.pos = 0, !.end = 0, !.hist = Line_Count,
                            !.out = <<>>, !.buffer = <<>>]
    /\ Read_Line_pc' = "keys"
    /\ klast' = [klast EXCEPT !.op = "read", !.touched = {0},
                              !.full = FALSE, !.freed = <<>>,
                              !.oldest = <<>>]
    /\ UNCHANGED <<Line_History, Line_Count, fault>>

\* one key of the bytes read, in Read_Line's loop.  A read past the end of
\* the buffer is undefined: the byte it fetches lands in buffer[end], past
\* the line, and a checked build stops there.
CallProcessKey ==
    /\ TermCall
    /\ Read_Line_pc = "keys"
    /\ \E k \in Keys :
          LET t == Process_Key(term @@ [touched |-> {}], k)
              stored == k[1] = "CR"
              h == IF stored
                   THEN Store_History(Line_History, Line_Count, term.buffer)
                   ELSE [lines |-> Line_History, count |-> Line_Count,
                         full |-> FALSE, freed |-> <<>>]
          IN  /\ term' = TermOf(t)
              /\ Line_History' = h.lines
              /\ Line_Count' = h.count
              /\ klast' = [op |-> k[1], touched |-> t.touched,
                           full |-> h.full, freed |-> h.freed,
                           oldest |-> IF stored /\ Len(klast.entered) =
                                                      MAX_HISTORY - 1
                                      THEN <<klast.entered[1]>> ELSE <<>>,
                           entered |-> IF stored
                                       THEN Recent(klast.entered, term.buffer)
                                       ELSE klast.entered]
              /\ IF t.touched \ BufferIndices # {}
                 THEN fault' \in {"none", "buffer_overread"}
                 ELSE fault' = fault
    /\ UNCHANGED Read_Line_pc

\* Read_Line returns the line once the bytes read are used up and
\* term->out is set
ReturnLine ==
    /\ TermCall
    /\ Read_Line_pc = "keys"
    /\ term.out # <<>>
    /\ Read_Line_pc' = "idle"
    /\ klast' = [klast EXCEPT !.op = "return", !.touched = {},
                              !.full = FALSE, !.freed = <<>>,
                              !.oldest = <<>>]
    /\ UNCHANGED <<term, Line_History, Line_Count, fault>>

TermNext == CallReadLine \/ CallProcessKey \/ ReturnLine

(***************************************************************************)
(* The specifications: each component is driven on its own, the others     *)
(* stay as initialized.                                                    *)
(***************************************************************************)
ThrowIdle ==
    /\ TG_Thrown_Arg = TrashVal
    /\ cells = [c \in Cells |-> Val(1)]
    /\ tlast = NoTLast

DSIdle ==
    /\ DS_Array = <<>>
    /\ out = [array |-> <<>>, index |-> 0, locked |-> FALSE]
    /\ dlast = NoDLast

\* room for every value the data stack's callers push here
ExpIdle ==
    /\ DS_Rest = MaxDepth + 1
    /\ elast = NoELast

FuncIdle == FuncInit

FrameIdle == FrameInit

TrapIdle == TrapInit

GuardIdle == GuardInit

TermIdle == TermInit

ChunkIdle ==
    /\ ChunkInit
    /\ TG_Root_Chunker = ChunkerSize

InitChunk == ChunkInit /\ ThrowIdle /\ DSIdle /\ ExpIdle
    /\ FuncIdle /\ FrameIdle /\ TrapIdle /\ GuardIdle /\ TermIdle
    /\ fault = "none"

InitThrow == ChunkIdle /\ ThrowInit /\ DSIdle /\ ExpIdle
    /\ FuncIdle /\ FrameIdle /\ TrapIdle /\ GuardIdle /\ TermIdle
    /\ fault = "none"

InitDS == ChunkIdle /\ ThrowIdle /\ DSInit /\ ExpIdle
    /\ FuncIdle /\ FrameIdle /\ TrapIdle /\ GuardIdle /\ TermIdle
    /\ fault = "none"

SpecChunk == InitChunk /\ [][ChunkNext]_vars

SpecThrow == InitThrow /\ [][ThrowNext]_vars

SpecDS == InitDS /\ [][DSNext]_vars

InitExp == ChunkIdle /\ ThrowIdle /\ DSIdle /\ ExpInit
    /\ FuncIdle /\ FrameIdle /\ TrapIdle /\ GuardIdle /\ TermIdle
    /\ fault = "none"

SpecExp == InitExp /\ [][ExpNext]_vars

InitFunc == ChunkIdle /\ ThrowIdle /\ DSIdle /\ ExpIdle
    /\ FuncInit /\ FrameIdle /\ TrapIdle /\ GuardIdle /\ TermIdle /\ fault = "none"

SpecFunc == InitFunc /\ [][FuncNext]_vars

InitFrame == ChunkIdle /\ ThrowIdle /\ DSIdle /\ ExpIdle
    /\ funcs = FrameFuncs /\ ulast = NoULast
    /\ FrameInit /\ TrapIdle /\ GuardIdle /\ TermIdle /\ fault = "none"

SpecFrame == InitFrame /\ [][FrameNext]_vars

SpecRetire == InitFrame /\ [][RetireNext]_vars

InitTrap == ChunkIdle /\ ThrowIdle /\ DSIdle /\ ExpIdle
    /\ FuncIdle /\ FrameIdle /\ TrapInit /\ GuardIdle /\ TermIdle
    /\ fault = "none"

\* the trap's loop runs on once it has begun
SpecTrap == InitTrap /\ [][TrapNext]_vars /\ WF_vars(UnwindStep)

InitGuard == ChunkIdle /\ ThrowIdle /\ DSIdle /\ ExpIdle
    /\ FuncIdle /\ FrameIdle /\ TrapIdle /\ GuardInit /\ TermIdle
    /\ fault = "none"

SpecGuard == InitGuard /\ [][GuardNext]_vars

InitTerm == ChunkIdle /\ ThrowIdle /\ DSIdle /\ ExpIdle
    /\ FuncIdle /\ FrameIdle /\ TrapIdle /\ GuardIdle /\ TermInit
    /\ fault = "none"

SpecTerm == InitTerm /\ [][TermNext]_vars

(***************************************************************************)
(* The chunk stack's claims, checked under SpecChunk.                      *)
(***************************************************************************)
\* the Chunker that holds the top chunk
TopChunker == CHUNKER_FROM_CHUNK(TG_Top_Chunk)

\* the Chunkers that hold a live chunk: the root (the initial chunk is never
\* dropped) and those of the chunks the callers hold
LiveChunkers ==
    {TG_Root_Chunker} \cup
    {c \in chunkers : \E i \in 1..Len(live) : InChunker(live[i].values, c)}

\* C1: a drop of a pushed chunk leaves TG_Top_Chunk at the value it had
\* before that chunk's push, whether the chunk was carved in place or at the
\* start of a follow-on Chunker.
C1_PushDropRestoresTop ==
    last.op = "drop" =>
        /\ fault = "none"
        /\ TG_Top_Chunk = last.topBefore

\* a chunk carved at the start of a follow-on Chunker, above another pushed
\* chunk, has been dropped
C1_Witness ==
    /\ last.op = "drop"
    /\ last.stepped
    /\ Len(live) >= 1
    /\ TG_Top_Chunk = last.topBefore

\* C2 as stated: the push that follows the drop of a chunk of n values, for
\* m <= n values, returns the dropped chunk's address and does not ALLOC.
C2_Original ==
    (last.op = "push" /\ last.afterDrop /\ last.n <= last.dn) =>
        /\ last.values = last.dvalues
        /\ ~last.alloc

\* C2, amended: that push never ALLOCs; it returns the dropped chunk's address
\* when m = n or when the dropped chunk had been carved in place.
C2_ReuseAfterDrop ==
    (last.op = "push" /\ last.afterDrop /\ last.n <= last.dn) =>
        /\ ~last.alloc
        /\ (last.n = last.dn \/ ~last.dstepped) =>
               last.values = last.dvalues

\* the dropped chunk had stepped into a new Chunker, and the push after its
\* drop steps into that Chunker again
C2_Witness ==
    /\ last.op = "push"
    /\ last.afterDrop
    /\ last.n <= last.dn
    /\ last.dstepped
    /\ last.stepped
    /\ last.values = last.dvalues

\* C3: from Init_Stacks to Shutdown_Stacks, the Chunker of the top chunk is
\* followed by no Chunker, or by one that holds no live chunk and is followed
\* by none; and the Chunkers allocated are at most those holding a live
\* chunk, plus one.
C3_AtMostOneSpare ==
    StacksUp =>
        /\ \/ next[TopChunker] = NULL
           \/ /\ next[TopChunker] \in chunkers \ LiveChunkers
              /\ next[next[TopChunker]] = NULL
        /\ Cardinality(chunkers) <= Cardinality(LiveChunkers) + 1

\* a drop has freed a follow-on Chunker and kept the one it emptied
C3_Witness ==
    /\ last.op = "drop"
    /\ last.freed
    /\ next[TopChunker] # NULL
    /\ Cardinality(chunkers) = Cardinality(LiveChunkers) + 1

\* C16: Shutdown_Stacks raises no assertion when every pushed chunk has been
\* dropped (also right after Init_Stacks), and faults when a pushed chunk
\* is left.
C16_ShutdownWhenUnwound ==
    last.op = "shutdown" => (fault = "none" <=> Len(live) = 0)

\* the stacks were shut down after pushes and drops that left a spare
\* Chunker behind the root: both were freed
C16_Witness ==
    /\ last.op = "shutdown"
    /\ fault = "none"
    /\ last.freed
    /\ Len(live) = 0
    /\ chunkers = {}

\* C17: a drop given a handle that is not NULL and not the top chunk's
\* faults, with TG_Top_Chunk, TG_Head_Chunk and the Chunkers as before.
C17_DropNotTopFaults ==
    last.wrong =>
        /\ fault = "assert_not_top"
        /\ TG_Top_Chunk = last.pre.top
        /\ TG_Head_Chunk = last.pre.head
        /\ chunkers = last.pre.chunkers
        /\ next = last.pre.next

\* the handle of a chunk in the root Chunker was dropped while the top
\* chunk was the head of a follow-on Chunker
C17_Witness ==
    /\ last.wrong
    /\ last.op = "drop_fault"
    /\ fault = "assert_not_top"
    /\ TG_Top_Chunk = TG_Head_Chunk
    /\ InChunker(last.values, TG_Root_Chunker)
    /\ ~InChunker(TG_Top_Chunk, TG_Root_Chunker)

\* C28: a push whose chunk (header, values, and the pointer of the chunk
\* after it) is larger than the payload of a Chunker with nothing in it
\* fails an assert before anything is changed: no Chunker is allocated,
\* the top and the head chunk are as they were; and no chunk of that size
\* is ever pushed.
C28_TooBigFaults ==
    /\ last.op = "push_fault" =>
           /\ fault = "assert_chunk_size"
           /\ ChunkSize(last.n) + PtrSize > CS_CHUNKER_PAYLOAD
           /\ TG_Top_Chunk = last.pre.top
           /\ TG_Head_Chunk = last.pre.head
           /\ chunkers = last.pre.chunkers
           /\ next = last.pre.next
    /\ last.op = "push" =>
           ChunkSize(last.n) + PtrSize <= CS_CHUNKER_PAYLOAD

\* the push of too many values was made above a pushed chunk, with no
\* Chunker after the top one
C28_Witness ==
    /\ last.op = "push_fault"
    /\ fault = "assert_chunk_size"
    /\ Len(live) >= 1
    /\ next[TopChunker] = NULL
    /\ Cardinality(chunkers) = 1

\* the header of the i-th chunk the callers hold, the address just past its
\* n slots, and the addresses of its slots
LiveChunk(i) == CHUNK_FROM_VALUES(live[i].values)

LiveEnd(i) == live[i].values + live[i].n * ValSize

LiveSlots(i) == {live[i].values + k * ValSize : k \in 0..(live[i].n - 1)}

\* a scan of the i-th live chunk's slots halts exactly after its n slots
ScanHaltsAfterSlots(i) ==
    /\ Hdr(LiveChunk(i)).size = ChunkSize(live[i].n)
    /\ HdrIsEnd(LiveEnd(i))
    /\ \A a \in LiveSlots(i) : ~HdrIsEnd(a)

\* C31 as stated: every live chunk's scan halts exactly after its n slots,
\* the top chunk's terminator being the zero-size sentinel written by its
\* push and a buried chunk's the header of the chunk carved after it.
C31_Original ==
    \A i \in 1..Len(live) :
        /\ ScanHaltsAfterSlots(i)
        /\ IF i = Len(live)
           THEN Hdr(LiveEnd(i)).size = 0
           ELSE LiveEnd(i) = LiveChunk(i + 1)

\* C31: for every live chunk, top or buried, a scan of its slots halts at
\* an END marker exactly after its n slots, and no push or drop of a
\* neighbouring chunk removes it.  The marker is the size word found after
\* the slots: the size of the next live chunk when that chunk was carved
\* right after this one, and otherwise the zero the chunk's own push wrote
\* there or the size a chunk since dropped left there.
C31_ChunksTerminated ==
    \A i \in 1..Len(live) :
        /\ ScanHaltsAfterSlots(i)
        /\ (i < Len(live) /\ ~live[i + 1].stepped) =>
               /\ LiveEnd(i) = LiveChunk(i + 1)
               /\ Hdr(LiveEnd(i)).size = ChunkSize(live[i + 1].n)
        /\ (i = Len(live) \/ live[i + 1].stepped) =>
               Hdr(LiveEnd(i)).size \in
                   {0} \cup {ChunkSize(n) : n \in 0..MaxValues}

\* a chunk was pushed after the first one and dropped, and the chunk pushed
\* next went to another Chunker: the first chunk is buried and the word
\* after its slots is the dropped chunk's size
C31_Witness ==
    /\ Len(live) = 2
    /\ last.op = "push"
    /\ live[2].stepped
    /\ ScanHaltsAfterSlots(1)
    /\ Hdr(LiveEnd(1)).size > 0
    /\ LiveEnd(1) # LiveChunk(2)

\* the Chunker whose memory holds address a
ChunkerOfAddr(a) == CHOOSE c \in ChunkerAddrs : InChunker(a, c)

\* the chunk at address c accounts for its Chunker's whole payload and
\* leaves room in it for a pointer
PayloadAccounted(c) ==
    /\ ChunkerOfAddr(c) \in chunkers
    /\ (c - PayloadOf(ChunkerOfAddr(c))) + Hdr(c).size + Hdr(c).payload_left
           = CS_CHUNKER_PAYLOAD
    /\ Hdr(c).payload_left >= PtrSize

\* C34: for every live chunk (the initial chunk of no values included), its
\* offset in its Chunker's payload plus its size plus its payload_left is
\* CS_CHUNKER_PAYLOAD, and its payload_left is at least the size of a
\* pointer: no subtraction made by a push goes below zero.
C34_PayloadAccounting ==
    /\ StacksUp => PayloadAccounted(PayloadOf(TG_Root_Chunker))
    /\ \A i \in 1..Len(live) : PayloadAccounted(LiveChunk(i))

\* three chunks are live: the second was carved in place and left room for
\* no further chunk, the third went to the next Chunker
C34_Witness ==
    /\ Len(live) = 3
    /\ last.op = "push"
    /\ ~live[2].stepped
    /\ Hdr(LiveChunk(2)).payload_left < ChunkSize(0) + PtrSize
    /\ live[3].stepped
    /\ Hdr(LiveChunk(3)).payload_left
           = CS_CHUNKER_PAYLOAD - ChunkSize(live[3].n)

\* C35: from Init_Stacks to Shutdown_Stacks, TG_Head_Chunk is the first
\* chunk of the Chunker that holds TG_Top_Chunk; so a drop takes the branch
\* for a chunk that empties its Chunker exactly when the chunk dropped was
\* the first one carved in its Chunker.
C35_HeadIsFirstOfTopChunker ==
    /\ StacksUp =>
           TG_Head_Chunk = PayloadOf(ChunkerOfAddr(TG_Top_Chunk))
    /\ last.op = "drop" =>
           /\ last.emptied <=> last.stepped
           /\ last.emptied <=>
                  last.values = ValuesOf(PayloadOf(ChunkerOfAddr(last.values)))

\* the first chunk of a follow-on Chunker was dropped above two chunks of
\* the root Chunker: the head chunk is the root's first chunk again, which
\* is not the top chunk
C35_Witness ==
    /\ last.op = "drop"
    /\ last.emptied
    /\ Len(live) = 2
    /\ TG_Head_Chunk = PayloadOf(TG_Root_Chunker)
    /\ TG_Top_Chunk = LiveChunk(2)
    /\ TG_Top_Chunk # TG_Head_Chunk
    /\ fault = "none"

\* the Chunkers linked from c on, c first, as far as k links are followed
RECURSIVE ChainFrom(_, _)
ChainFrom(c, k) ==
    IF c = NULL \/ c = TRASH \/ k = 0 THEN <<>>
    ELSE <<c>> \o ChainFrom(next[c], k - 1)

\* the list that starts at the root Chunker
RootChain == ChainFrom(TG_Root_Chunker, MaxChunkers + 1)

\* C36: no Chunker is freed while it holds a live chunk; every FREE is
\* given a Chunker that is allocated at that time (the allocated Chunkers
\* are exactly those of the list from the root, each once, so the `next`
\* a drop or the shutdown frees is an allocated Chunker and none is out of
\* the list's reach); and after a shutdown that passes its asserts no
\* Chunker is left allocated.
C36_ChunkersFreedOnce ==
    /\ StacksUp =>
           /\ \A i \in 1..Len(live) :
                  ChunkerOfAddr(live[i].values) \in chunkers
           /\ ChunkerOfAddr(TG_Top_Chunk) \in chunkers
           /\ {RootChain[k] : k \in 1..Len(RootChain)} = chunkers
           /\ Len(RootChain) = Cardinality(chunkers)
    /\ last.op = "drop" /\ last.freed =>
           Cardinality(chunkers) = Cardinality(LiveChunkers) + 1
    /\ (last.op = "shutdown" /\ fault = "none") =>
           /\ chunkers = {}
           /\ \A c \in ChunkerAddrs : next[c] = TRASH

\* the stacks were shut down with a spare Chunker behind the root: both
\* were freed, no Chunker and no chunk memory is left
C36_Witness ==
    /\ last.op = "shutdown"
    /\ last.freed
    /\ fault = "none"
    /\ chunkers = {}
    /\ DOMAIN mem = {}
    /\ \A c \in ChunkerAddrs : next[c] = TRASH

(***************************************************************************)
(* The thrown-value channel's claims, checked under SpecThrow.             *)
(***************************************************************************)
\* the cells that carry VALUE_FLAG_THROWN
ThrownCells == {c \in Cells : THROWN(cells[c])}

\* C4 as stated: a throw made while a payload is pending faults with every
\* cell and the payload as they were before the call.
C4_Original ==
    (tlast.op = "throw" /\ ~IS_TRASH_DEBUG(tlast.preArg)) =>
        /\ fault # "none"
        /\ cells = tlast.preCells
        /\ TG_Thrown_Arg = tlast.preArg

\* C5: the catch of the label L that was thrown last with payload P, into
\* any destination D, leaves D = P, L not flagged and the channel empty.
C5_ThrowThenCatch ==
    (/\ tlast.op = "catch"
     /\ ~IS_TRASH_DEBUG(tlast.preArg)
     /\ tlast.name = tlast.tname) =>
        /\ fault = "none"
        /\ cells[tlast.arg_out] = tlast.targ
        /\ ~THROWN(cells[tlast.name])
        /\ IS_TRASH_DEBUG(TG_Thrown_Arg)

\* a payload that differs from the label's content was caught into a cell
\* that is not the label
C5_Witness ==
    /\ tlast.op = "catch"
    /\ fault = "none"
    /\ tlast.name = tlast.tname
    /\ tlast.arg_out # tlast.name
    /\ tlast.targ.val # cells[tlast.name].val
    /\ cells[tlast.arg_out] = tlast.targ

\* C6: a catch made while no payload is pending faults; so does a catch
\* that follows a catch.
C6_CatchWhenEmptyFaults ==
    /\ (tlast.op = "catch" /\ IS_TRASH_DEBUG(tlast.preArg)) =>
           fault # "none"
    /\ (tlast.op = "catch" /\ tlast.prevOp = "catch") => fault # "none"

\* the label thrown and caught once is caught again, and that faults
C6_Witness ==
    /\ tlast.op = "catch"
    /\ tlast.prevOp = "catch"
    /\ tlast.name = tlast.tname
    /\ fault # "none"

\* C7: while no call has faulted, a payload is pending exactly when one cell
\* carries the thrown flag, and never more than one cell does.
C7_OnePendingOneThrown ==
    fault = "none" =>
        /\ Cardinality(ThrownCells) <= 1
        /\ ~IS_TRASH_DEBUG(TG_Thrown_Arg) <=> Cardinality(ThrownCells) = 1

\* a second throw, after the first was caught, is pending under another label
C7_Witness ==
    /\ fault = "none"
    /\ tlast.op = "throw"
    /\ tlast.prevOp = "catch"
    /\ ~IS_TRASH_DEBUG(TG_Thrown_Arg)
    /\ ThrownCells = {tlast.name}

\* C37: a catch whose destination is the thrown label's own cell, made
\* while that cell is flagged and a payload is pending, passes its asserts;
\* afterwards the cell holds the payload and not the label, it is not
\* flagged thrown, the channel is empty and no other cell has changed.
C37_CatchIntoLabel ==
    (/\ tlast.op = "catch"
     /\ tlast.arg_out = tlast.name
     /\ THROWN(tlast.preCells[tlast.name])
     /\ ~IS_TRASH_DEBUG(tlast.preArg)) =>
        /\ fault = "none"
        /\ cells[tlast.name] = tlast.preArg
        /\ ~THROWN(cells[tlast.name])
        /\ IS_TRASH_DEBUG(TG_Thrown_Arg)
        /\ \A c \in Cells \ {tlast.name} : cells[c] = tlast.preCells[c]

\* the label's cell was given as the destination, and the payload differs
\* from the label's content
C37_Witness ==
    /\ tlast.op = "catch"
    /\ tlast.arg_out = tlast.name
    /\ fault = "none"
    /\ THROWN(tlast.preCells[tlast.name])
    /\ tlast.preArg.val # tlast.preCells[tlast.name].val
    /\ cells[tlast.name] = tlast.preArg
    /\ IS_TRASH_DEBUG(TG_Thrown_Arg)

(***************************************************************************)
(* The data stack's claims, checked under SpecDS.                          *)
(***************************************************************************)
\* the number of values above the mark before the last pop
PoppedCount == (Len(dlast.preDS) - 1) - dlast.dsp_start

\* the i-th value pushed above the mark, before the last pop
Popped(i) == dlast.preDS[dlast.dsp_start + 1 + i]

\* C8: a pop with no destination makes `out` a block of exactly the values
\* above the mark, in push order, and leaves DSP at the mark.
C8_PopMakesBlock ==
    (dlast.op = "pop" /\ ~dlast.into) =>
        /\ fault = "none"
        /\ DSP = dlast.dsp_start
        /\ Len(out.array) = PoppedCount
        /\ \A i \in 1..PoppedCount : out.array[i] = Popped(i)
        /\ \A i \in 1..Len(DS_Array) : DS_Array[i] = dlast.preDS[i]

\* two different values above a value that stays were popped into a block
C8_Witness ==
    /\ dlast.op = "pop"
    /\ ~dlast.into
    /\ dlast.dsp_start = 0
    /\ PoppedCount = 2
    /\ out.array = <<1, 2>>
    /\ DSP = 0

\* C9 as stated: after every pop, faulting or not, DSP is at the mark.
C9_Original == dlast.op = "pop" => DSP = dlast.dsp_start

\* C9, amended: after every pop that returns DSP is at the mark; the only
\* pop that does not return is the one into a locked destination, which
\* fails with the data stack as it was.
C9_PopDropsRange ==
    /\ (dlast.op = "pop" /\ fault = "none") => DSP = dlast.dsp_start
    /\ (dlast.op = "pop" /\ fault # "none") =>
           /\ dlast.into
           /\ dlast.preOut.locked
           /\ DS_Array = dlast.preDS

\* values were popped into a writable destination
C9_Witness ==
    /\ dlast.op = "pop"
    /\ dlast.into
    /\ fault = "none"
    /\ PoppedCount >= 1
    /\ DSP = dlast.dsp_start

C11_LockedPopFails ==
    (dlast.op = "pop" /\ dlast.into /\ dlast.preOut.locked) =>
        /\ fault = "fail_locked"
        /\ out.array = dlast.preOut.array
        /\ out.index = dlast.preOut.index

\* two values were to be inserted in the middle of a locked destination
C11_Witness ==
    /\ dlast.op = "pop"
    /\ dlast.into
    /\ dlast.preOut.locked
    /\ PoppedCount = 2
    /\ Len(dlast.preOut.array) = 1
    /\ dlast.preOut.index = 0
    /\ fault = "fail_locked"
    /\ out = dlast.preOut

\* C30 as stated: from Init_Stacks until Shutdown_Stacks has run, DSP is
\* never negative.
C30_Original == StacksUp => DSP >= 0

\* C30: from Init_Stacks up to and including the state Shutdown_Stacks
\* requires, DSP is the index of the top value and is never below -1; it is
\* -1 exactly when the stack holds no value, which is the state Init_Stacks
\* leaves, and Shutdown_Stacks passes its assertions exactly in that state.
C30_DSPFromMinusOne ==
    /\ DSP >= -1
    /\ DSP = -1 <=> DS_Array = <<>>
    /\ dlast.op = "init" => DSP = -1
    /\ dlast.op = "pop" => (DSP >= dlast.dsp_start /\ dlast.dsp_start >= -1)
    /\ dlast.op = "shutdown" => (fault = "none" <=> DSP = -1)

\* values were pushed and popped back to the mark -1 into a new block, and
\* the shutdown that followed passed
C30_Witness ==
    /\ dlast.op = "shutdown"
    /\ Len(out.array) = 2
    /\ ~StacksUp
    /\ fault = "none"
    /\ DSP = -1

(***************************************************************************)
(* The capacity's claim, checked under SpecExp.                            *)
(***************************************************************************)
\* C12 as stated: an expansion faults with stack overflow whenever the
\* capacity plus the amount exceeds STACK_LIMIT, and succeeds when they
\* reach exactly STACK_LIMIT.
C12_Original ==
    elast.op = "expand" =>
        /\ elast.preRest + elast.amount > STACK_LIMIT =>
               fault = "stack_overflow"
        /\ elast.preRest + elast.amount = STACK_LIMIT =>
               (fault = "none" /\ DS_Rest = STACK_LIMIT)

(***************************************************************************)
(* The resolver's claims, checked under SpecFunc.                          *)
(***************************************************************************)
\* C15: for every function made by any nesting of specializations,
\* adaptations and chains over a plain function, Underlying_Function follows
\* at most two cached pointers and passes its asserts: the function returned
\* is its own cached underlying function and is no specializer, adapter or
\* chainer; resolving the function returned gives it again, with no
\* specializer.
C15_ResolvesInTwoHops ==
    ulast.op = "resolve" =>
        /\ fault = "none"
        /\ ulast.hops <= 2
        /\ CachedUnderlying(ulast.underlying) = ulast.underlying
        /\ funcs[ulast.underlying].kind = "plain"
        /\ Underlying_Function(ulast.underlying).underlying
               = ulast.underlying
        /\ Underlying_Function(ulast.underlying).specializer = NULL

\* an adaptation of an adaptation of a specialization was resolved, in two
\* hops
C15_Witness ==
    /\ ulast.op = "resolve"
    /\ fault = "none"
    /\ ulast.hops = 2
    /\ IS_FUNCTION_ADAPTER(ulast.value)
    /\ IS_FUNCTION_ADAPTER(funcs[ulast.value].inner)
    /\ IS_FUNCTION_SPECIALIZER(ulast.specializer)
    /\ funcs[ulast.underlying].kind = "plain"

\* C32: Underlying_Function selects the specializer so: the callable itself
\* when it is a specialization (the underlying function one hop away);
\* otherwise the callable's cached first-hop function when that one is a
\* specialization (the underlying function a second hop away); otherwise
\* none, with the first-hop function as the underlying one.  The call
\* changes no function descriptor.
C32_SpecializerChoice ==
    /\ [](ulast.op = "resolve" =>
            LET value == ulast.value
                first == funcs[value].underlying
            IN  IF funcs[value].kind = "specializer"
                THEN /\ ulast.specializer = value
                     /\ ulast.underlying = first
                     /\ ulast.hops = 1
                ELSE IF funcs[first].kind = "specializer"
                THEN /\ ulast.specializer = first
                     /\ ulast.underlying = funcs[first].underlying
                     /\ ulast.hops = 2
                ELSE /\ ulast.specializer = NULL
                     /\ ulast.underlying = first
                     /\ ulast.hops = 1)
    /\ [][ulast' # ulast => funcs' = funcs]_vars

\* a chain over an adaptation of a specialization was resolved: the
\* specializer is the chain's first-hop function, neither the chain nor the
\* function it wraps
C32_Witness ==
    /\ ulast.op = "resolve"
    /\ funcs[ulast.value].kind = "chainer"
    /\ funcs[funcs[ulast.value].inner].kind = "adapter"
    /\ ulast.specializer = funcs[ulast.value].underlying
    /\ ulast.specializer # funcs[ulast.value].inner
    /\ funcs[ulast.specializer].kind = "specializer"
    /\ ulast.hops = 2
    /\ fault = "none"

(***************************************************************************)
(* The frames' claims, checked under SpecFrame.                            *)
(***************************************************************************)
FrameIds == 1..Len(frames)

\* the frames either routine has constructed
FramesOf(routine) == {i \in FrameIds : frames[i].routine = routine}

\* C13 as stated: slot 0 of every frame's storage holds the descriptor of
\* the resolved underlying function.
C13_Original ==
    \A i \in FrameIds :
        /\ Len(Storage(frames[i])) >= 1
        /\ Storage(frames[i])[1] = FUNC_VALUE(frames[i].underlying)

\* C13, amended: Push_New_Arglist_For_Call leaves the called function's own
\* descriptor in slot 0 of either kind of storage;
\* Push_Or_Alloc_Args_For_Underlying_Func writes no descriptor at any
\* wrapping depth: slot 0 of its array is trash (debug build), and its chunk
\* has the argument slots only.
C13_SlotZero ==
    /\ \A i \in FramesOf("arglist") :
           Storage(frames[i])[1] = FUNC_VALUE(frames[i].func)
    /\ \A i \in FramesOf("underlying") :
           LET f == frames[i]
               st == Storage(f)
           IN  /\ f.varlist # NULL => IS_TRASH_CELL(st[1])
               /\ f.stackvars # NULL =>
                      Len(st) = FUNC_NUM_PARAMS(f.underlying)
               /\ \A k \in 1..Len(st) : st[k].type # "function"

\* Push_New_Arglist_For_Call has built a chunk-backed and a heap-backed
\* frame, the other routine a frame for an adaptation of a specialization
C13_Witness ==
    /\ Len(frames) = 3
    /\ frames[1].routine = "arglist" /\ frames[1].stackvars # NULL
    /\ frames[2].routine = "arglist" /\ frames[2].varlist # NULL
    /\ frames[3].routine = "underlying"
    /\ IS_FUNCTION_ADAPTER(frames[3].gotten)
    /\ Storage(frames[1])[1] = FUNC_VALUE(frames[1].func)
    /\ Storage(frames[2])[1] = FUNC_VALUE(frames[2].func)

\* the frames built for a specialization
Specialized == {i \in FramesOf("underlying") : frames[i].specializer # NULL}

\* the exemplar's value for parameter k of frame i
ExemplarOf(i, k) == funcs[frames[i].specializer].exemplar[k]

\* C14 as stated: in a frame built for a specialization, argument k is the
\* exemplar's value when that is not void, and END otherwise.
C14_Original ==
    \A i \in Specialized : \A k \in 1..frames[i].num_args :
        FRM_ARG(frames[i], k) =
            IF IS_VOID(ExemplarOf(i, k)) THEN End ELSE ExemplarOf(i, k)

\* C14, amended: argument k is the exemplar's value when that is not void;
\* otherwise it is END in a frame built without DO_FLAG_APPLYING and void in
\* a frame built with it.
C14_ExemplarFill ==
    \A i \in Specialized : \A k \in 1..frames[i].num_args :
        FRM_ARG(frames[i], k) =
            IF ~IS_VOID(ExemplarOf(i, k)) THEN ExemplarOf(i, k)
            ELSE IF frames[i].applying THEN Void ELSE End

\* frames for x = 5 with y unbound, chunk-backed, and for y = 5 with x
\* unbound, heap-backed, neither built for apply
C14_Witness ==
    /\ Len(frames) = 2
    /\ frames[1].specializer # NULL /\ frames[1].stackvars # NULL
    /\ ~frames[1].applying
    /\ FRM_ARG(frames[1], 1) = Int5
    /\ FRM_ARG(frames[1], 2) = End
    /\ frames[2].specializer # NULL /\ frames[2].varlist # NULL
    /\ ~frames[2].applying
    /\ FRM_ARG(frames[2], 1) = End
    /\ FRM_ARG(frames[2], 2) = Int5

\* the slots of frame i's storage, counted from its chunk header or from
\* its array's length
SlotCount(i) ==
    IF frames[i].stackvars # NULL
    THEN CHUNK_LEN_FROM_VALUES(mem, frames[i].stackvars)
    ELSE arrays[frames[i].varlist].len

\* frame i has an array of n slots, of fixed size, and no chunk
HeapBacked(i, n) ==
    /\ frames[i].varlist # NULL
    /\ frames[i].stackvars = NULL
    /\ SlotCount(i) = n
    /\ Len(Storage(frames[i])) = n
    /\ arrays[frames[i].varlist].fixed

\* frame i has a chunk of n slots and no array
ChunkBacked(i, n) ==
    /\ frames[i].stackvars # NULL
    /\ frames[i].varlist = NULL
    /\ SlotCount(i) = n
    /\ Len(Storage(frames[i])) = n

\* the construction called last was for a durable function and left the
\* chunk stack as it was
DurableLeftChunks ==
    (/\ flast.op = "construct"
     /\ fault = "none"
     /\ IS_FUNC_DURABLE(frames[Len(frames)].underlying)) =>
        ChunkPre = flast.pre

\* C18 as stated: a frame for a durable function has an array of
\* paramCount + 1 slots of fixed size and no chunk, and its construction
\* left the chunk stack alone; any other frame has a chunk of paramCount
\* slots and no array.
C18_Original ==
    /\ \A i \in FrameIds :
           LET n == FUNC_NUM_PARAMS(frames[i].underlying)
           IN  IF IS_FUNC_DURABLE(frames[i].underlying)
               THEN HeapBacked(i, n + 1)
               ELSE ChunkBacked(i, n)
    /\ DurableLeftChunks

\* C18, amended: so it is for the frames of
\* Push_Or_Alloc_Args_For_Underlying_Func; a frame of
\* Push_New_Arglist_For_Call has paramCount + 1 slots in either kind of
\* storage (slot 0 is the function's), an array of fixed size for a closure
\* and a chunk otherwise.
C18_StorageByDurability ==
    /\ \A i \in FramesOf("underlying") :
           LET n == FUNC_NUM_PARAMS(frames[i].underlying)
           IN  IF IS_FUNC_DURABLE(frames[i].underlying)
               THEN HeapBacked(i, n + 1)
               ELSE ChunkBacked(i, n)
    /\ \A i \in FramesOf("arglist") :
           LET n == FUNC_NUM_PARAMS(frames[i].func)
           IN  IF IS_CLOSURE(frames[i].func)
               THEN HeapBacked(i, n + 1)
               ELSE ChunkBacked(i, n + 1)
    /\ DurableLeftChunks

\* after a chunk-backed frame, a frame for a specialization of the durable
\* function was built on the heap
C18_Witness ==
    /\ Len(frames) = 2
    /\ frames[1].routine = "underlying" /\ ChunkBacked(1, 2)
    /\ frames[2].routine = "underlying" /\ HeapBacked(2, 3)
    /\ IS_FUNCTION_SPECIALIZER(frames[2].gotten)
    /\ ChunkPre = flast.pre
    /\ TG_Top_Chunk = CHUNK_FROM_VALUES(frames[1].stackvars)

\* the last construction was for a function that is not durable and has
\* more parameters than a chunk can hold
ConstructedTooBig ==
    /\ flast.op = "construct"
    /\ ~IS_FUNC_DURABLE(Underlying_Function(flast.gotten).underlying)
    /\ ~ChunkFits(ChunkSize(
           FUNC_NUM_PARAMS(Underlying_Function(flast.gotten).underlying)))

\* C29 as stated: for a function that is not durable and whose parameters
\* make a chunk larger than a Chunker's payload, construction checks the
\* size first and builds the frame in a heap-backed array, without calling
\* the push.
C29_Original ==
    ConstructedTooBig =>
        /\ fault = "none"
        /\ ChunkPre = flast.pre
        /\ frames[Len(frames)].gotten = flast.gotten
        /\ frames[Len(frames)].varlist # NULL

\* C19: a frame of Push_Or_Alloc_Args_For_Underlying_Func with no
\* specializer has every argument END when built without DO_FLAG_APPLYING
\* and void when built with it; and no frame built with DO_FLAG_APPLYING,
\* specialized or not, has an argument that is END.
C19_PendingOrVoid ==
    \A i \in FramesOf("underlying") : \A k \in 1..frames[i].num_args :
        /\ frames[i].specializer = NULL =>
               FRM_ARG(frames[i], k) =
                   IF frames[i].applying THEN Void ELSE End
        /\ frames[i].applying => ~IS_END(FRM_ARG(frames[i], k))

\* a plain function's frame holds END twice, the frame built for apply of
\* the specialization x = 5 holds 5 and void
C19_Witness ==
    /\ Len(frames) = 2
    /\ frames[1].specializer = NULL /\ ~frames[1].applying
    /\ FRM_ARG(frames[1], 1) = End /\ FRM_ARG(frames[1], 2) = End
    /\ frames[2].specializer # NULL /\ frames[2].applying
    /\ FRM_ARG(frames[2], 1) = Int5 /\ FRM_ARG(frames[2], 2) = Void

RetiredLast == flast.op = "retire"

\* the allocator is as it was when the last call on a frame was made
ChunkStackUntouched ==
    /\ ChunkPre = flast.pre
    /\ live = flast.preLive

\* C21: retiring a chunk-backed frame (on the normal path) drops exactly
\* that frame's chunk when it is the top chunk: the top is again what it was
\* before the frame was constructed, and once every pushed chunk has been
\* retired so the top is the one before the first frame.  Retiring a frame
\* whose chunk is not the top fails the assert of Drop_Chunk and changes
\* nothing.
C21_RetireDropsTop ==
    /\ (/\ RetiredLast
        /\ flast.frame.stackvars # NULL
        /\ flast.drop_chunks) =>
           LET h == flast.frame.stackvars
               rec == flast.preLive[Len(flast.preLive)]
           IN  IF ValuesOf(flast.pre.top) = h
               THEN /\ fault = "none"
                    /\ rec.values = h
                    /\ TG_Top_Chunk = rec.topBefore
                    /\ live = SubSeq(flast.preLive, 1,
                                     Len(flast.preLive) - 1)
                    /\ h \notin DOMAIN cvals
               ELSE /\ fault = "assert_not_top"
                    /\ ChunkStackUntouched
                    /\ frames[flast.index] = flast.frame
    /\ (Len(frames) > 0 /\ live = <<>> /\ fault = "none") =>
           TG_Top_Chunk = PayloadOf(TG_Root_Chunker)

\* two chunk-backed frames were constructed, one inside the other, and
\* retired in reverse order
C21_Witness ==
    /\ Len(frames) = 2
    /\ arrays = <<>>
    /\ Retired(frames[1]) /\ Retired(frames[2])
    /\ RetiredLast /\ flast.index = 1 /\ flast.drop_chunks
    /\ flast.frame.stackvars # NULL
    /\ fault = "none"
    /\ live = <<>>
    /\ TG_Top_Chunk = PayloadOf(TG_Root_Chunker)

\* C22: retiring a heap-backed frame whose array is not managed frees that
\* array, once, leaves every other array alone and does not touch the chunk
\* stack; no array is ever freed twice.
C22_UnmanagedFreedOnce ==
    /\ (/\ RetiredLast
        /\ flast.frame.stackvars = NULL
        /\ flast.frame.varlist # NULL
        /\ ~flast.preArrays[flast.frame.varlist].managed) =>
           LET v == flast.frame.varlist
           IN  /\ fault = "none"
               /\ flast.preArrays[v].frees = 0
               /\ arrays[v].frees = 1
               /\ \A a \in DOMAIN arrays \ {v} :
                      arrays[a] = flast.preArrays[a]
               /\ ChunkStackUntouched
    /\ \A a \in DOMAIN arrays : arrays[a].frees <= 1

\* the array of a durable function's frame, never reified, was freed while
\* a chunk-backed frame was on the chunk stack
C22_Witness ==
    /\ RetiredLast
    /\ flast.frame.stackvars = NULL
    /\ flast.frame.varlist # NULL
    /\ ~flast.preArrays[flast.frame.varlist].managed
    /\ arrays[flast.frame.varlist].frees = 1
    /\ Len(live) = 1
    /\ fault = "none"

\* the last call retired a frame whose varlist was managed
RetiredManaged ==
    /\ RetiredLast
    /\ flast.frame.varlist # NULL
    /\ flast.preArrays[flast.frame.varlist].managed

\* C23 as stated: a heap-backed frame with a managed varlist is retired by
\* clearing the accessible flag of its array, which is not freed.
C23_Original ==
    (RetiredManaged /\ flast.frame.stackvars = NULL) =>
        /\ arrays[flast.frame.varlist].frees = 0
        /\ ~arrays[flast.frame.varlist].accessible

\* C23, amended: a managed varlist is never freed by retirement.  The array
\* of a heap-backed frame (dynamic data, no stack memory) is left exactly as
\* it was, still accessible; the stub of a reified chunk-backed frame
\* (CONTEXT_FLAG_STACK) has its accessible flag cleared and nothing else
\* changed.
C23_ManagedNotFreed ==
    (RetiredManaged /\ fault = "none") =>
        LET v == flast.frame.varlist
            before == flast.preArrays[v]
        IN  /\ arrays[v].frees = 0
            /\ IF before.stack
               THEN /\ flast.frame.stackvars # NULL
                    /\ before.accessible
                    /\ arrays[v] = [before EXCEPT !.accessible = FALSE]
               ELSE /\ flast.frame.stackvars = NULL
                    /\ arrays[v] = before
                    /\ arrays[v].accessible

\* a reified chunk-backed frame has been retired, and then a heap-backed
\* frame whose array was managed
C23_Witness ==
    /\ RetiredManaged
    /\ flast.frame.stackvars = NULL
    /\ arrays[flast.frame.varlist].accessible
    /\ \E a \in DOMAIN arrays : arrays[a].stack /\ ~arrays[a].accessible
    /\ fault = "none"

\* C24: on the error path (drop_chunks false) the retirement leaves the
\* chunk stack as it was (top, head chunk, Chunkers and their links, the
\* pushed chunks), even for a chunk-backed frame, whose cells stay where they
\* are.
C24_ErrorPathKeepsChunks ==
    (/\ RetiredLast
     /\ flast.routine = "underlying"
     /\ ~flast.drop_chunks) =>
        /\ fault = "none"
        /\ ChunkStackUntouched
        /\ Retired(frames[flast.index])
        /\ flast.frame.stackvars # NULL =>
               flast.frame.stackvars \in DOMAIN cvals

\* a chunk-backed frame on top of the chunk stack was retired on the error
\* path
C24_Witness ==
    /\ RetiredLast
    /\ flast.routine = "underlying"
    /\ ~flast.drop_chunks
    /\ flast.frame.stackvars # NULL
    /\ ValuesOf(TG_Top_Chunk) = flast.frame.stackvars
    /\ Retired(frames[flast.index])
    /\ fault = "none"

\* the storage has a slot 0 before the arguments: an array has, and so has
\* either storage of Push_New_Arglist_For_Call
HasSlotZero(f) == f.routine = "arglist" \/ f.stackvars = NULL

\* where the n-th parameter's cell is in the storage, slot 0 or the first
\* argument being the first
ParamSlot(f, n) == IF HasSlotZero(f) THEN n + 1 ELSE n

\* C26: for 1 <= n <= paramCount the accessor gives the cell of the n-th
\* parameter, inside the storage (not slot 0, not the end after the last
\* cell), a different cell for a different n; for n = 0 and n > paramCount
\* the debug build fails an assert.
C26_ArgInRange ==
    flast.op = "arg" =>
        LET f == flast.frame
            n == flast.n
            st == Storage(f)
        IN  IF n \in 1..f.num_args
            THEN /\ fault = "none"
                 /\ flast.slot = ParamSlot(f, n)
                 /\ flast.slot \in 1..Len(st)
                 /\ HasSlotZero(f) => flast.slot # 1
                 /\ \A m \in (1..f.num_args) \ {n} :
                        ArgAddr(f, m) # flast.slot
            ELSE fault = "assert_arg_index"

\* the second argument of a frame in an array was reached
C26_Witness ==
    /\ flast.op = "arg"
    /\ flast.n = 2
    /\ flast.frame.num_args = 2
    /\ flast.frame.stackvars = NULL
    /\ flast.slot = 3
    /\ fault = "none"

\* the handles of the chunks that are pushed and not dropped
LiveHandles == {live[j].values : j \in 1..Len(live)}

\* C38: the retirement of a reified chunk-backed frame clears the accessible
\* flag of its varlist, whether it drops the chunk (normal path) or leaves
\* it to the trap (error path); so every varlist over chunk memory that is
\* still marked accessible is that of a frame not yet retired whose chunk
\* has not been dropped.
C38_StubInaccessibleOnRetire ==
    /\ (/\ flast.op = "retire"
        /\ fault = "none"
        /\ flast.routine = "underlying"
        /\ flast.frame.stackvars # NULL
        /\ flast.frame.varlist # NULL) =>
           ~arrays[flast.frame.varlist].accessible
    /\ \A a \in 1..Len(arrays) :
           (arrays[a].stack /\ arrays[a].accessible) =>
               \E i \in 1..Len(frames) :
                   /\ ~Retired(frames[i])
                   /\ frames[i].varlist = a
                   /\ frames[i].stackvars \in LiveHandles

\* two reified chunk-backed frames: the second was retired on the error
\* path, its chunk is still pushed and its varlist is inaccessible; the
\* first is not retired and its varlist is accessible
C38_Witness ==
    /\ Len(frames) = 2
    /\ flast.op = "retire"
    /\ flast.index = 2
    /\ ~flast.drop_chunks
    /\ fault = "none"
    /\ flast.frame.stackvars \in LiveHandles
    /\ flast.frame.varlist # NULL
    /\ arrays[flast.frame.varlist].stack
    /\ ~arrays[flast.frame.varlist].accessible
    /\ ~Retired(frames[1])
    /\ frames[1].stackvars \in LiveHandles
    /\ Reified(frames[1])
    /\ arrays[frames[1].varlist].accessible

\* where a frame is in its life: 1 while it reports fulfilling, 2 once its
\* cursor is at the end of the parameter list, 3 once it is retired
Stage(f) ==
    IF Retired(f) THEN 3
    ELSE IF Is_Function_Frame_Fulfilling(f) THEN 1 ELSE 2

Unwound == trap.unwinding /\ AtMark

\* the chunk stack is what the trap saved: top, head chunk, the chunks the
\* callers held then, and no more than one Chunker without a live chunk
Restored ==
    /\ TG_Top_Chunk = trap.top
    /\ TG_Head_Chunk = trap.head
    /\ live = trap.live
    /\ Cardinality(chunkers) <= Cardinality(LiveChunkers) + 1
    /\ \/ next[TopChunker] = NULL
       \/ next[next[TopChunker]] = NULL
    /\ fault = "none"

\* C25: after a mark of TG_Top_Chunk and any pushes and drops above it,
\* calling Drop_Chunk(NULL) while TG_Top_Chunk is not the mark comes to an
\* end, and the chunk stack is then as marked: the same top and head chunk,
\* the same chunks held, at most one spare Chunker.
C25_UnwindToMark ==
    /\ [](Unwound => Restored)
    /\ (trap.unwinding ~> Unwound)

\* the loop dropped three chunks, back across a Chunker boundary
C25_Witness ==
    /\ Unwound
    /\ trap.dropped = 3
    /\ Len(trap.live) = 0
    /\ Cardinality(chunkers) = 2
    /\ Restored

(***************************************************************************)
(* The guards' claim, checked under SpecGuard.                             *)
(***************************************************************************)
\* the stack the last guard call was made on
GuardStack ==
    IF glast.kind = "series" THEN GC_Series_Guard ELSE GC_Value_Guard

\* C27: a guard drop takes the most recently pushed guard off its stack and
\* fails an assert when its argument is not that guard; a drop that passes
\* undoes the push of its argument (so nested pairs of push and drop leave
\* the stack with the length and content it had), and a push only adds its
\* argument on top.
C27_GuardsLIFO ==
    /\ glast.op = "drop" =>
           /\ Len(GuardStack) = Len(glast.pre) - 1
           /\ GuardStack = SubSeq(glast.pre, 1, Len(glast.pre) - 1)
           /\ (fault = "none") <=> (glast.arg = glast.pre[Len(glast.pre)])
           /\ fault = "none" => Append(GuardStack, glast.arg) = glast.pre
           /\ fault \in {"none", "assert_guard"}
    /\ glast.op = "push" =>
           /\ GuardStack = Append(glast.pre, glast.arg)
           /\ fault = "none"

\* a series was guarded twice over another and both guards dropped in turn
C27_Witness ==
    /\ glast.op = "drop" /\ glast.kind = "series"
    /\ Len(glast.pre) = 2
    /\ glast.pre[1] # glast.pre[2]
    /\ glast.arg = glast.pre[2]
    /\ GC_Series_Guard = <<glast.pre[1]>>
    /\ Len(GC_Value_Guard) > 0
    /\ fault = "none"

(***************************************************************************)
(* The line editor's claims, checked under SpecTerm.                       *)
(***************************************************************************)
\* the last call was a key handled by Process_Key
KeyHandled == klast.op \in {"char"} \cup EditKeys

\* the cursor and the end of the line are inside the buffer
CursorInBuffer ==
    /\ 0 <= term.pos
    /\ term.pos <= term.end
    /\ term.end <= TERM_BUF_LEN - 1

\* the bytes the last call touched are bytes of the buffer
TouchedInBuffer == klast.touched \subseteq BufferIndices

\* C39: after each key Process_Key handles during a Read_Line,
\* 0 <= pos <= end <= TERM_BUF_LEN-1, and every read and write of the edit
\* buffer the key made lies within indices 0..TERM_BUF_LEN-1: the memmove of
\* Insert_Char and of Delete_Char with the line at its maximum length, and
\* Store_Line's terminator, included.
C39_Original ==
    KeyHandled =>
        /\ CursorInBuffer
        /\ TouchedInBuffer

\* what holds of the keys: the cursor stays in the buffer, every write does,
\* and a read goes at most one byte past it
KeysCursorAndWrites ==
    KeyHandled =>
        /\ CursorInBuffer
        /\ klast.touched \subseteq 0..TERM_BUF_LEN
        /\ TERM_BUF_LEN \in klast.touched => klast.op \in {"BS", "DEL"}

\* a character deleted from a line of the maximum length
DeleteAtMaximum ==
    /\ klast.op \in {"BS", "DEL"}
    /\ TERM_BUF_LEN \in klast.touched
    /\ term.end = TERM_BUF_LEN - 2

\* C40: whatever lines Store_Line has stored, Line_Count is at most
\* MAX_HISTORY, Line_History[0] is the empty line Init_Terminal put there,
\* and Line_History[1 .. Line_Count-1] are the lines entered last, in the
\* order they were entered; a store into a full history frees the oldest of
\* the entered lines it holds, never Line_History[0].
C40_HistoryKeepsRecent ==
    /\ Line_Count <= MAX_HISTORY
    /\ Len(Line_History) = Line_Count
    /\ Line_History[1] = empty_line
    /\ SubSeq(Line_History, 2, Line_Count) = klast.entered
    /\ klast.op = "CR" =>
          /\ klast.freed = klast.oldest
          /\ klast.full <=> klast.freed # <<>>

\* a line is stored into a full history of two different lines, and a line
\* that is not empty is dropped for it
C40_Witness ==
    /\ klast.op = "CR"
    /\ klast.full
    /\ Line_Count = MAX_HISTORY
    /\ klast.freed # <<>>
    /\ klast.freed[1] # empty_line
    /\ Line_History[2] # klast.freed[1]
    /\ Line_History[2] # Line_History[3]

====
